---------------------------- MODULE Spec2Model ----------------------------
(***************************************************************************)
(* A model of the boot image writer (src/src/bootimage.cpp): the TypeMap   *)
(* builders, the heap-walk visitor of makeHeapImage, the code-constant     *)
(* passes, the serializer of writeBootImage2 and main.                     *)
(*                                                                         *)
(* Memory is modelled at byte granularity.  A byte is 0..255; Uninit marks *)
(* a byte of the heap buffer no code has written (the buffer is allocated  *)
(* and never cleared).  The build host is little-endian.                   *)
(***************************************************************************)
EXTENDS Integers, Sequences, FiniteSets, TLC

VARIABLES
  abi,            \* build configuration: host and target word size, target endianness
  built,          \* TypeMap builders: the maps produced by the last builder call
  vm,             \* the initialized VM: objects, classes, roots (input of the writer)
  typeMaps,       \* hash map  key object -> TypeMap
  heap,           \* Visitor::heap, the bytes emitted so far (length = position * word)
  heapMap,        \* Visitor::map, the set of marked bit indices
  position,       \* Visitor::position (target words)
  capacity,       \* Visitor::capacity (target words)
  current,        \* Visitor::currentObject / currentNumber / currentOffset
  walker,         \* the VM's heap walker: number map, stack, pending reference, roots left
  log,            \* history of visitor calls (ghost)
  code,           \* code segment: deferred lists, rewritten immediates, code bitmap
  image,          \* the BootImage header record
  out,            \* the output file: sections written so far
  pc,             \* position in main / writeBootImage2
  io,             \* outcome of the process: exit status, write failures, exception
  tables,         \* the index tables and the call table built for the image
  scan,           \* makeCodeImage's loop over the classpath: filters, entries, what was done
  copied          \* field transcoder: the last field copied and the bytes it left

vars == <<abi, built, vm, typeMaps, heap, heapMap, position, capacity, current,
          walker, log, code, image, out, pc, io, tables, scan, copied>>

---------------------------------------------------------------------------
(* Bounds of the model *)

\* longest constant pool (in entries) given to the pool TypeMap builder
MaxPool == 3
\* longest field table given to the field-table TypeMap builder
MaxFields == 3
\* longest fixed part of a VM type descriptor given to the descriptor builder
MaxVmFields == 2

---------------------------------------------------------------------------
(* Generic helpers *)

Min(a, b) == IF a < b THEN a ELSE b

Max(a, b) == IF a > b THEN a ELSE b

RECURSIVE Pow2(_)
Pow2(n) == IF n = 0 THEN 1 ELSE 2 * Pow2(n - 1)

RECURSIVE BitOr(_, _)
BitOr(a, b) ==
  IF a = 0 THEN b
  ELSE IF b = 0 THEN a
  ELSE Max(a % 2, b % 2) + 2 * BitOr(a \div 2, b \div 2)

RECURSIVE BitAnd(_, _)
BitAnd(a, b) ==
  IF a = 0 \/ b = 0 THEN 0
  ELSE Min(a % 2, b % 2) + 2 * BitAnd(a \div 2, b \div 2)

\* common.h ceiling(x, n) = (x + n - 1) / n
ceiling(x, n) == (x + n - 1) \div n

\* the loop  while (offset % size) ++offset;
AlignUp(offset, size) == ceiling(offset, size) * size

RECURSIVE Flatten(_)
Flatten(ss) == IF ss = <<>> THEN <<>> ELSE Head(ss) \o Flatten(Tail(ss))

\* all sequences over S of length 0..n
SeqsUpTo(S, n) == UNION {[1..k -> S] : k \in 0..n}

---------------------------------------------------------------------------
(* Target ABI *)

WordSizes == {4, 8}

BytesPerWord == abi.BytesPerWord

TargetBytesPerWord == abi.TargetBytesPerWord

TargetBitsPerWord == TargetBytesPerWord * 8

TargetBigEndian == abi.TargetBigEndian

Abis ==
  [BytesPerWord : WordSizes, TargetBytesPerWord : WordSizes,
   TargetBigEndian : BOOLEAN]

(* enum Type *)
Type_none == "none"
Type_object == "object"
Type_int8_t == "int8_t"
Type_uint8_t == "uint8_t"
Type_int16_t == "int16_t"
Type_uint16_t == "uint16_t"
Type_int32_t == "int32_t"
Type_uint32_t == "uint32_t"
Type_intptr_t == "intptr_t"
Type_uintptr_t == "uintptr_t"
Type_int64_t == "int64_t"
Type_int64_t_pad == "int64_t_pad"
Type_uint64_t == "uint64_t"
Type_float == "float"
Type_double == "double"
Type_double_pad == "double_pad"
Type_word == "word"
Type_array == "array"

(* TypeMap::Kind *)
NormalKind == "NormalKind"
SingletonKind == "SingletonKind"
PoolKind == "PoolKind"

\* class Field
Field(type, offset, targetOffset) ==
  [type |-> type, offset |-> offset, targetOffset |-> targetOffset]

\* targetFixedOffsets(): one entry per build byte of the fixed part; the byte
\* array holding the map is zero-filled, so an entry never written reads 0.
\* Entries are written in field order, a later field overwriting an earlier.
RECURSIVE FillOffsets(_, _)
FillOffsets(table, fields) ==
  IF fields = <<>> THEN table
  ELSE FillOffsets([table EXCEPT ![Head(fields).offset] = Head(fields).targetOffset],
                   Tail(fields))

\* class TypeMap, with its trailing targetFixedOffsets() and fixedFields()
TypeMap(buildFixedSizeInWords, targetFixedSizeInWords, fields, kind, buildArrayElementSizeInBytes, targetArrayElementSizeInBytes, arrayElementType) ==
  [buildFixedSizeInWords |-> buildFixedSizeInWords,
   targetFixedSizeInWords |-> targetFixedSizeInWords,
   fixedFieldCount |-> Len(fields),
   buildArrayElementSizeInBytes |-> buildArrayElementSizeInBytes,
   targetArrayElementSizeInBytes |-> targetArrayElementSizeInBytes,
   arrayElementType |-> arrayElementType,
   kind |-> kind,
   fixedFields |-> fields,
   targetFixedOffsets |->
     FillOffsets([b \in 0..(buildFixedSizeInWords * BytesPerWord - 1) |-> 0],
                 fields)]

\* the expect() before each targetFixedOffsets() store: a build offset outside
\* the fixed part aborts the process
FieldsInRange(fields, buildFixedSizeInWords) ==
  \A i \in 1..Len(fields) :
    fields[i].offset < buildFixedSizeInWords * BytesPerWord

NoMap == [kind |-> "none"]

Aborted == [kind |-> "aborted"]


---------------------------------------------------------------------------
(* TypeMap builder (a): the constant pool of a class file, makeCodeImage *)

CONSTANT_Class == "Class"
CONSTANT_String == "String"
CONSTANT_Integer == "Integer"
CONSTANT_Float == "Float"
CONSTANT_NameAndType == "NameAndType"
CONSTANT_Fieldref == "Fieldref"
CONSTANT_Methodref == "Methodref"
CONSTANT_InterfaceMethodref == "InterfaceMethodref"
CONSTANT_Long == "Long"
CONSTANT_Double == "Double"
CONSTANT_Utf8 == "Utf8"

PoolTags ==
  {CONSTANT_Class, CONSTANT_String, CONSTANT_Integer, CONSTANT_Float,
   CONSTANT_NameAndType, CONSTANT_Fieldref, CONSTANT_Methodref,
   CONSTANT_InterfaceMethodref, CONSTANT_Long, CONSTANT_Double, CONSTANT_Utf8}

\* a tag byte the switch does not know (default: abort(t))
UnknownTag == "Unknown"

\* a switch that gives an eight-byte constant one slot and no pad
PoolEntryTypesNoPad(tag) ==
  CASE tag \in {CONSTANT_Class, CONSTANT_String} -> <<Type_object>>
    [] tag \in {CONSTANT_Integer, CONSTANT_Float} -> <<Type_int32_t>>
    [] tag \in {CONSTANT_NameAndType, CONSTANT_Fieldref, CONSTANT_Methodref,
                CONSTANT_InterfaceMethodref} -> <<Type_object>>
    [] tag = CONSTANT_Long -> <<Type_int64_t>>
    [] tag = CONSTANT_Double -> <<Type_double>>
    [] tag = CONSTANT_Utf8 -> <<Type_object>>
    [] OTHER -> <<>>

\* the switch on s.read1(): the Type tags one pool entry contributes
PoolEntryTypes(tag) ==
  CASE tag \in {CONSTANT_Class, CONSTANT_String} -> <<Type_object>>
    [] tag \in {CONSTANT_Integer, CONSTANT_Float} -> <<Type_int32_t>>
    [] tag \in {CONSTANT_NameAndType, CONSTANT_Fieldref, CONSTANT_Methodref,
                CONSTANT_InterfaceMethodref} -> <<Type_object>>
    [] tag = CONSTANT_Long -> <<Type_int64_t, Type_int64_t_pad>>
    [] tag = CONSTANT_Double -> <<Type_double, Type_double_pad>>
    [] tag = CONSTANT_Utf8 -> <<Type_object>>
    [] OTHER -> <<>>

\* types[]: the two leading slots, then the entries' tags
PoolTypes(pool) ==
  <<Type_object, Type_intptr_t>>
    \o Flatten([i \in 1..Len(pool) |-> PoolEntryTypes(pool[i])])

\* the build and target byte offset of pool field i (0-based)
PoolFieldOffset(i, wordSize) == i * wordSize

\* the Pool-kind TypeMap of a class file whose constant pool holds the entries
\* `pool` (constant_pool_count - 1 = the number of slots they take); NoMap when
\* the pool is empty, Aborted on an unknown tag
PoolTypeMap(pool) ==
  LET types == PoolTypes(pool)
      count == Len(types) - 2
  IN  IF \E i \in 1..Len(pool) : pool[i] \notin PoolTags THEN Aborted
      ELSE IF count = 0 THEN NoMap
      ELSE TypeMap(count + 2, count + 2,
                   [i \in 1..(count + 2) |->
                      Field(types[i], PoolFieldOffset(i - 1, BytesPerWord),
                            PoolFieldOffset(i - 1, TargetBytesPerWord))],
                   PoolKind, 0, 0, Type_none)

---------------------------------------------------------------------------
(* TypeMap builder (b): the field table of a class, makeCodeImage *)

ObjectField == "ObjectField"
ByteField == "ByteField"
BooleanField == "BooleanField"
CharField == "CharField"
ShortField == "ShortField"
FloatField == "FloatField"
IntField == "IntField"
LongField == "LongField"
DoubleField == "DoubleField"

FieldCodes ==
  {ObjectField, ByteField, BooleanField, CharField, ShortField, FloatField,
   IntField, LongField, DoubleField}

\* machine.h fieldSize(t, code): the build size of a field
fieldSize(fieldCode) ==
  CASE fieldCode = ObjectField -> BytesPerWord
    [] fieldCode \in {ByteField, BooleanField} -> 1
    [] fieldCode \in {CharField, ShortField} -> 1
    [] fieldCode \in {FloatField, IntField} -> 4
    [] fieldCode \in {LongField, DoubleField} -> 8
    [] OTHER -> 0

\* the switch on fieldCode(t, field): the Type tag of a field
FieldType(fieldCode) ==
  CASE fieldCode = ObjectField -> Type_object
    [] fieldCode \in {ByteField, BooleanField} -> Type_int8_t
    [] fieldCode \in {CharField, ShortField} -> Type_int8_t
    [] fieldCode \in {FloatField, IntField} -> Type_int32_t
    [] fieldCode \in {LongField, DoubleField} -> Type_int64_t
    [] OTHER -> Type_none

\* the size the target offset is aligned to and advanced by
FieldTargetSize(fieldCode) ==
  IF fieldCode = ObjectField THEN TargetBytesPerWord ELSE fieldSize(fieldCode)

\* a layout that packs the fields without aligning them
PackedOffset(offset, size) == offset

\* where a field of `size` bytes goes when the running offset is `offset`
FieldTargetOffset(offset, size) == AlignUp(offset, size)

\* the loop over the field table, for one partition (static or member):
\* the Field entries appended to `acc` and the final running target offset
RECURSIVE LayoutPartition(_, _, _, _)
LayoutPartition(fieldTable, static, targetOffset, acc) ==
  IF fieldTable = <<>> THEN [fields |-> acc, targetOffset |-> targetOffset]
  ELSE LET f == Head(fieldTable)
           size == FieldTargetSize(f.code)
           at == FieldTargetOffset(targetOffset, size)
       IN  IF f.static # static
           THEN LayoutPartition(Tail(fieldTable), static, targetOffset, acc)
           ELSE LayoutPartition(Tail(fieldTable), static, at + size,
                                Append(acc, Field(FieldType(f.code), f.offset, at)))

\* a member layout that starts after a header of one build word
BuildMemberStart == BytesPerWord

\* unsigned targetMemberOffset = TargetBytesPerWord: the members start after
\* a header of one target word
TargetMemberStart == TargetBytesPerWord

\* the Normal-kind TypeMap of the instance layout, keyed by the class
MemberTypeMap(c) ==
  LET lay == LayoutPartition(c.fieldTable, FALSE, TargetMemberStart,
                             <<Field(Type_object, 0, 0)>>)
      buildWords == ceiling(c.fixedSize, BytesPerWord)
  IN  IF \E i \in 1..Len(c.fieldTable) : c.fieldTable[i].code \notin FieldCodes
      THEN Aborted
      ELSE IF ~FieldsInRange(lay.fields, buildWords) THEN Aborted
      ELSE TypeMap(buildWords, ceiling(lay.targetOffset, TargetBytesPerWord),
                   lay.fields, NormalKind, 0, 0, Type_none)

\* the Singleton-kind TypeMap of the static table, keyed by the table;
\* NoMap when the class has no static table
StaticTypeMap(c) ==
  LET lay == LayoutPartition(c.fieldTable, TRUE, TargetBytesPerWord * 2,
                             <<Field(Type_object, 0, 0),
                               Field(Type_intptr_t, BytesPerWord, TargetBytesPerWord)>>)
      buildWords == c.singletonCount + 2
  IN  IF MemberTypeMap(c) = Aborted THEN Aborted
      ELSE IF ~c.hasStaticTable THEN NoMap
      ELSE IF ~FieldsInRange(lay.fields, buildWords) THEN Aborted
      ELSE TypeMap(buildWords, ceiling(lay.targetOffset, TargetBytesPerWord),
                   lay.fields, SingletonKind, 0, 0, Type_none)

\* The VM's class parser gives every field its build offset: members from
\* the end of the object header, statics from the end of the singleton
\* header, each aligned to its build size.
RECURSIVE HostOffsets(_, _, _)
HostOffsets(specs, memberOffset, staticOffset) ==
  IF specs = <<>>
  THEN [fieldTable |-> <<>>, memberEnd |-> memberOffset, staticEnd |-> staticOffset]
  ELSE LET f == Head(specs)
           size == Max(fieldSize(f.code), 1)
           mAt == AlignUp(memberOffset, size)
           sAt == AlignUp(staticOffset, size)
           rest == IF f.static
                   THEN HostOffsets(Tail(specs), memberOffset, sAt + size)
                   ELSE HostOffsets(Tail(specs), mAt + size, staticOffset)
       IN  [rest EXCEPT !.fieldTable =
              <<[code |-> f.code, static |-> f.static,
                 offset |-> IF f.static THEN sAt ELSE mAt]>> \o @]

\* a resolved class: its field table, classFixedSize and static table
HostClass(specs) ==
  LET h == HostOffsets(specs, BytesPerWord, BytesPerWord * 2)
  IN  [fieldTable |-> h.fieldTable,
       hasFieldTable |-> TRUE,
       fixedSize |-> h.memberEnd,
       hasStaticTable |-> \E i \in 1..Len(specs) : specs[i].static,
       singletonCount |-> ceiling(h.staticEnd - BytesPerWord * 2, BytesPerWord)]

\* classFieldTable(t, c) as the class parser leaves it.  For a class that
\* declares fields it is the table; for a class that declares none the
\* writer is handed either a null reference or an empty table.
HostClasses(specs) ==
  {HostClass(specs)}
  \cup (IF specs = <<>> THEN {[HostClass(specs) EXCEPT !.hasFieldTable = FALSE]}
        ELSE {})

\* if (classFieldTable(t, c)) { ... }: the member and the static TypeMap of a
\* class, none of them when the class has no field table
FieldTypeMaps(c) ==
  IF c.hasFieldTable THEN <<MemberTypeMap(c), StaticTypeMap(c)>>
  ELSE <<NoMap, NoMap>>

---------------------------------------------------------------------------
(* TypeMap builder (c): the VM's type descriptors, writeBootImage2 *)

\* the switch on source[j - 1]: the Type tag and the build and target size
\* of one descriptor entry; size -1 stands for default: abort(t)
VmEntry(tag) ==
  CASE tag = Type_object ->
         [type |-> Type_object, buildSize |-> BytesPerWord,
          targetSize |-> TargetBytesPerWord]
    [] tag \in {Type_word, Type_intptr_t, Type_uintptr_t} ->
         [type |-> Type_intptr_t, buildSize |-> BytesPerWord,
          targetSize |-> TargetBytesPerWord]
    [] tag \in {Type_int8_t, Type_uint8_t} ->
         [type |-> Type_int8_t, buildSize |-> 1, targetSize |-> 1]
    [] tag \in {Type_int16_t, Type_uint16_t} ->
         [type |-> Type_int16_t, buildSize |-> 2, targetSize |-> 2]
    [] tag \in {Type_int32_t, Type_uint32_t, Type_float} ->
         [type |-> Type_int32_t, buildSize |-> 4, targetSize |-> 4]
    [] tag \in {Type_int64_t, Type_uint64_t, Type_double} ->
         [type |-> Type_int64_t, buildSize |-> 8, targetSize |-> 8]
    [] tag = Type_array ->
         [type |-> Type_none, buildSize |-> 0, targetSize |-> 0]
    [] OTHER -> [type |-> Type_none, buildSize |-> -1, targetSize |-> -1]

\* where a descriptor field of `size` bytes goes when the running offset is `offset`
VmFieldOffset(offset, size) == AlignUp(offset, size)

\* the loop  for (j = 1; j < count; ++j)  over the descriptor entries
RECURSIVE VmLayout(_, _)
VmLayout(source, st) ==
  IF source = <<>> THEN st
  ELSE LET e == VmEntry(Head(source))
           saw == st.sawArray \/ Head(source) = Type_array
           bAt == VmFieldOffset(st.buildOffset, e.buildSize)
           tAt == VmFieldOffset(st.targetOffset, e.targetSize)
       IN  IF e.buildSize < 0 THEN [st EXCEPT !.aborted = TRUE]
           ELSE VmLayout(Tail(source),
                  [st EXCEPT
                     !.sawArray = saw,
                     !.buildSize = e.buildSize,
                     !.targetSize = e.targetSize,
                     !.lastType = e.type,
                     !.fields = IF saw THEN @ ELSE Append(@, Field(e.type, bAt, tAt)),
                     !.buildOffset = IF saw THEN @ ELSE bAt + e.buildSize,
                     !.targetOffset = IF saw THEN @ ELSE tAt + e.targetSize])

\* the Normal-kind TypeMap of one VM type, keyed by the type's class.
\* `source` is the descriptor without its closing Type_none; a descriptor
\* with an array part ends  ..., Type_array, <element type>.
VmTypeMap(source) ==
  LET st == VmLayout(source,
              [fields |-> <<Field(Type_object, 0, 0)>>,
               buildOffset |-> BytesPerWord, targetOffset |-> TargetBytesPerWord,
               sawArray |-> FALSE, buildSize |-> BytesPerWord,
               targetSize |-> TargetBytesPerWord, lastType |-> Type_object,
               aborted |-> FALSE])
      buildWords == ceiling(st.buildOffset, BytesPerWord)
  IN  IF st.aborted THEN Aborted
      ELSE IF ~FieldsInRange(st.fields, buildWords) THEN Aborted
      ELSE TypeMap(buildWords, ceiling(st.targetOffset, TargetBytesPerWord),
                   st.fields, NormalKind,
                   IF st.sawArray THEN st.buildSize ELSE 0,
                   IF st.sawArray THEN st.targetSize ELSE 0,
                   IF st.sawArray THEN st.lastType ELSE Type_none)

---------------------------------------------------------------------------
(* The TypeMap builders on their own: every builder applied to every input
   within the bounds, for every host and target word size. *)

NoBuilt == [path |-> "none", input |-> <<>>, maps |-> <<>>]

IsTypeMap(m) == m.kind \in {NormalKind, SingletonKind, PoolKind}

FieldSpecs == [code : FieldCodes \cup {"UnknownField"}, static : BOOLEAN]

VmTags ==
  {Type_object, Type_word, Type_intptr_t, Type_uintptr_t, Type_int8_t,
   Type_uint8_t, Type_int16_t, Type_uint16_t, Type_int32_t, Type_uint32_t,
   Type_float, Type_int64_t, Type_uint64_t, Type_double, Type_int64_t_pad}

VmArrayTails ==
  {<<>>} \cup {<<Type_array, e>> : e \in {Type_object, Type_int8_t, Type_word,
                                          Type_uint16_t, Type_int64_t}}

BuildPoolTypeMap ==
  /\ pc = "typemaps"
  /\ \E pool \in SeqsUpTo(PoolTags \cup {UnknownTag}, MaxPool) :
       built' = [path |-> "pool", input |-> pool, maps |-> <<PoolTypeMap(pool)>>]
  /\ pc' = "built"
  /\ UNCHANGED <<scan, copied, abi, vm, typeMaps, heap, heapMap, position, capacity, current,
                 walker, log, code, image, out, io, tables>>

BuildFieldTypeMaps ==
  /\ pc = "typemaps"
  /\ \E specs \in SeqsUpTo(FieldSpecs, MaxFields) :
       \E c \in HostClasses(specs) :
         built' = [path |-> "fields", input |-> specs, maps |-> FieldTypeMaps(c)]
  /\ pc' = "built"
  /\ UNCHANGED <<scan, copied, abi, vm, typeMaps, heap, heapMap, position, capacity, current,
                 walker, log, code, image, out, io, tables>>

BuildVmTypeMap ==
  /\ pc = "typemaps"
  /\ \E fixed \in SeqsUpTo(VmTags, MaxVmFields), tail \in VmArrayTails :
       built' = [path |-> "vm", input |-> fixed \o tail,
                 maps |-> <<VmTypeMap(fixed \o tail)>>]
  /\ pc' = "built"
  /\ UNCHANGED <<scan, copied, abi, vm, typeMaps, heap, heapMap, position, capacity, current,
                 walker, log, code, image, out, io, tables>>

NextTypeMap == BuildPoolTypeMap \/ BuildFieldTypeMaps \/ BuildVmTypeMap

---------------------------------------------------------------------------
(* Runtime constants the writer inherits (common.h, bootimage.h, machine.h,
   heap.h) *)

HeapCapacity == 268435456

TargetFixieSizeInBytes == 8 + (TargetBytesPerWord * 2)

TargetFixieSizeInWords == ceiling(TargetFixieSizeInBytes, TargetBytesPerWord)

TargetFixieAge == 0

TargetFixieHasMask == 1

TargetFixieSize == 4

\* ~PointerMask: the low bits of a host word that are free for tags
PointerMaskComplement == BytesPerWord - 1

\* BootShift = 32 - log(BytesPerWord)
BootShift == IF BytesPerWord = 4 THEN 30 ELSE 29

FixedMark == 3

FixieTenureThreshold == 5

\* machine.h singletonMaskSize(count, bitsPerWord)
singletonMaskSize(count, bitsPerWord) ==
  IF count > 0 THEN ceiling(count + 2, bitsPerWord) ELSE 0

\* machine.h poolMaskSize(count, bitsPerWord)
poolMaskSize(count, bitsPerWord) == ceiling(count, bitsPerWord)

---------------------------------------------------------------------------
(* Bytes *)

Uninit == -1

Zeros(n) == [i \in 1..n |-> 0]

UninitBytes(n) == [i \in 1..n |-> Uninit]

Reverse(s) == [i \in 1..Len(s) |-> s[Len(s) + 1 - i]]

\* the little-endian bytes of v, n of them
RECURSIVE LEBytes(_, _)
LEBytes(v, n) == IF n = 0 THEN <<>> ELSE <<v % 256>> \o LEBytes(v \div 256, n - 1)

\* memcpy(block + at, bytes): the bytes that fall outside the block are dropped
WriteAt(block, at, bytes) ==
  [i \in 1..Len(block) |->
     IF i > at /\ i <= at + Len(bytes) THEN bytes[i - at] ELSE block[i]]

\* target.h TARGET_V2 / V4 / V8 / VW: host (little-endian) to target byte order
TargetV(bytes) == IF TargetBigEndian THEN Reverse(bytes) ELSE bytes

\* intptr_t to target_intptr_t: truncated, or sign-extended, to the target word
ToTargetWord(bytes) ==
  IF TargetBytesPerWord <= Len(bytes) THEN SubSeq(bytes, 1, TargetBytesPerWord)
  ELSE bytes \o [i \in 1..(TargetBytesPerWord - Len(bytes)) |->
                   IF bytes[Len(bytes)] >= 128 THEN 255 ELSE 0]

\* a copy that moves the build bytes of a scalar as they are
CopyFieldUnswapped(src, type) ==
  CASE type = Type_int8_t -> SubSeq(src, 1, 1)
    [] type = Type_int16_t -> SubSeq(src, 1, 2)
    [] type \in {Type_int32_t, Type_float} -> SubSeq(src, 1, 4)
    [] type \in {Type_int64_t, Type_double} -> SubSeq(src, 1, 8)
    [] type \in {Type_int64_t_pad, Type_double_pad} -> <<>>
    [] type = Type_intptr_t -> ToTargetWord(SubSeq(src, 1, BytesPerWord))
    [] type = Type_object -> Zeros(TargetBytesPerWord)
    [] OTHER -> <<Uninit>>

\* copy(t, src, dst, type): the bytes one field writes at dst; src holds the
\* field's build bytes.  <<Uninit>> stands for default: abort(t).
CopyField(src, type) ==
  CASE type = Type_int8_t -> SubSeq(src, 1, 1)
    [] type = Type_int16_t -> TargetV(SubSeq(src, 1, 2))
    [] type \in {Type_int32_t, Type_float} -> TargetV(SubSeq(src, 1, 4))
    [] type \in {Type_int64_t, Type_double} -> TargetV(SubSeq(src, 1, 8))
    [] type \in {Type_int64_t_pad, Type_double_pad} -> <<>>
    [] type = Type_intptr_t -> TargetV(ToTargetWord(SubSeq(src, 1, BytesPerWord)))
    [] type = Type_object -> Zeros(TargetBytesPerWord)
    [] OTHER -> <<Uninit>>

CopyAborts(type) ==
  type \notin {Type_int8_t, Type_int16_t, Type_int32_t, Type_float, Type_int64_t,
               Type_double, Type_int64_t_pad, Type_double_pad, Type_intptr_t,
               Type_object}

---------------------------------------------------------------------------
(* The initialized VM the writer reads: a small heap of the objects that
   matter to the writer.  Objects are named; Null is the null reference. *)

\* longest trailing array (a class's vtable) of the VM's heap
MaxLength == 1

Null == "null"

ClassType == "ClassType"
SystemClassLoaderType == "SystemClassLoaderType"
SingletonType == "SingletonType"
ArrayType == "ArrayType"
UserClass == "UserClass"
BootLoader == "BootLoader"
AppLoader == "AppLoader"
StaticTable == "StaticTable"
Instance == "Instance"
TypesArray == "TypesArray"

VmTypes == <<ClassType, SystemClassLoaderType, SingletonType, ArrayType>>

Classes == {ClassType, SystemClassLoaderType, SingletonType, ArrayType, UserClass}

Objects == Classes \cup {BootLoader, AppLoader, StaticTable, Instance, TypesArray}

\* the VM's type descriptors (type-maps.cpp), reduced to the members the
\* writer's decisions read
ClassDescriptor ==
  <<Type_uint32_t, Type_object, Type_object, Type_uintptr_t, Type_array, Type_word>>

LoaderDescriptor == <<Type_object>>

SingletonDescriptor == <<Type_uintptr_t, Type_array, Type_uintptr_t>>

ArrayDescriptor == <<Type_uintptr_t, Type_array, Type_object>>

TypeDescriptor(type) ==
  CASE type = ClassType -> ClassDescriptor
    [] type = SystemClassLoaderType -> LoaderDescriptor
    [] type = SingletonType -> SingletonDescriptor
    [] type = ArrayType -> ArrayDescriptor

\* the build byte offsets of a class object's staticTable and loader members
ClassStaticTable == 2 * BytesPerWord

ClassLoader == 3 * BytesPerWord

\* the field tables the scanned class may declare
UserFieldSpecs ==
  {<<[code |-> ObjectField, static |-> TRUE], [code |-> IntField, static |-> TRUE],
     [code |-> IntField, static |-> FALSE], [code |-> ObjectField, static |-> FALSE]>>,
   <<[code |-> LongField, static |-> FALSE], [code |-> ObjectField, static |-> FALSE],
     [code |-> ByteField, static |-> TRUE], [code |-> ObjectField, static |-> TRUE]>>,
   <<[code |-> ObjectField, static |-> FALSE]>>}

objectClass(p) == vm.cls[p]

\* instanceOf(t, type(t, Machine::SystemClassLoaderType), p)
IsSystemClassLoader(p) == objectClass(p) = SystemClassLoaderType

\* hashMapFind(t, typeMaps, key, ...): NoMap when the key has no entry
hashMapFind(maps, key) == IF key \in DOMAIN maps THEN maps[key] ELSE NoMap

typeMap(maps, p) ==
  IF objectClass(p) = SingletonType THEN hashMapFind(maps, p)
  ELSE hashMapFind(maps, objectClass(p))

\* cast<uintptr_t>(p, (buildFixedSizeInWords - 1) * BytesPerWord)
ArrayLength(p) == vm.length[p]

\* the byte at build offset `a` of object p: the length word of an object
\* with a trailing array holds its length, every other byte holds data
HostByte(map, p, a) ==
  LET lengthAt == (map.buildFixedSizeInWords - 1) * BytesPerWord
  IN  IF map.targetArrayElementSizeInBytes # 0 /\ a >= lengthAt
         /\ a < lengthAt + BytesPerWord
      THEN LEBytes(ArrayLength(p), BytesPerWord)[a - lengthAt + 1]
      ELSE ((a * 7) % 255) + 1

HostBytes(map, p, offset, n) == [i \in 1..n |-> HostByte(map, p, offset + i - 1)]

\* the object a reference member holds; the member at word 0 is the class
Ref(p, wordOffset) ==
  IF wordOffset = 0 THEN objectClass(p)
  ELSE IF wordOffset \in DOMAIN vm.refs[p] THEN vm.refs[p][wordOffset]
  ELSE Null

---------------------------------------------------------------------------
(* Size & offset calculator *)

targetOffset(maps, p, offset) ==
  LET map == typeMap(maps, p)
  IN  IF map.targetArrayElementSizeInBytes # 0
         /\ offset >= map.buildFixedSizeInWords * BytesPerWord
      THEN (map.targetFixedSizeInWords * TargetBytesPerWord)
           + (((offset - (map.buildFixedSizeInWords * BytesPerWord))
               \div map.buildArrayElementSizeInBytes)
              * map.targetArrayElementSizeInBytes)
      ELSE map.targetFixedOffsets[offset]

\* the size of an object with a trailing array
ArrayTargetSize(map, length) ==
  map.targetFixedSizeInWords
  + ceiling(map.targetArrayElementSizeInBytes * length, TargetBytesPerWord)

\* the size of an object without one, by kind
KindTargetSize(map) ==
  CASE map.kind = NormalKind -> map.targetFixedSizeInWords
    [] map.kind = SingletonKind ->
         map.targetFixedSizeInWords
         + singletonMaskSize(map.targetFixedSizeInWords - 2, TargetBitsPerWord)
    [] map.kind = PoolKind ->
         LET maskSize == poolMaskSize(map.targetFixedSizeInWords - 2,
                                      TargetBitsPerWord)
         IN  map.targetFixedSizeInWords + maskSize
             + singletonMaskSize(map.targetFixedSizeInWords - 2 + maskSize,
                                 TargetBitsPerWord)

targetSize(maps, p) ==
  LET map == typeMap(maps, p)
  IN  IF map.targetArrayElementSizeInBytes # 0
      THEN ArrayTargetSize(map, ArrayLength(p))
      ELSE KindTargetSize(map)

---------------------------------------------------------------------------
(* Field transcoder: copy(t, typeMaps, p, dst) *)

\* the loop over fixedFields(): each field copied to its target offset
RECURSIVE CopyFields(_, _, _, _)
CopyFields(block, map, p, fields) ==
  IF fields = <<>> THEN block
  ELSE CopyFields(WriteAt(block, Head(fields).targetOffset,
                          CopyField(HostBytes(map, p, Head(fields).offset, 8),
                                    Head(fields).type)),
                  map, p, Tail(fields))

\* the loop over the trailing array's elements
RECURSIVE CopyElements(_, _, _, _)
CopyElements(block, map, p, i) ==
  IF i = ArrayLength(p) THEN block
  ELSE CopyElements(
         WriteAt(block,
                 (map.targetFixedSizeInWords * TargetBytesPerWord)
                 + (i * map.targetArrayElementSizeInBytes),
                 CopyField(HostBytes(map, p,
                                     (map.buildFixedSizeInWords * BytesPerWord)
                                     + (i * map.buildArrayElementSizeInBytes), 8),
                           map.arrayElementType)),
         map, p, i + 1)

\* a mask of n bytes with the bits of `bits` set (bit b is bit b % 8 of byte b / 8)
RECURSIVE BitsValue(_)
BitsValue(bits) ==
  IF bits = {} THEN 0
  ELSE LET b == CHOOSE x \in bits : TRUE IN Pow2(b % 8) + BitsValue(bits \ {b})

MaskBytes(n, bits) == [k \in 1..n |-> BitsValue({b \in bits : b \div 8 = k - 1})]

\* the word index of each object field of a singleton: its mask bits
SingletonMaskBits(map) ==
  {map.fixedFields[i].targetOffset \div TargetBytesPerWord :
     i \in {j \in 1..map.fixedFieldCount : map.fixedFields[j].type = Type_object}}

\* the field index of each object field of a pool: its object mask bits
PoolObjectBits(map) ==
  {i - 1 : i \in {j \in 1..map.fixedFieldCount :
                    map.fixedFields[j].type = Type_object}}

\* the field index of each float or double field of a pool: its pool mask bits
PoolFloatBits(map) ==
  {i - 1 : i \in {j \in 1..map.fixedFieldCount :
                    map.fixedFields[j].type \in {Type_float, Type_double}}}

\* the trailing masks of a Singleton or Pool object
KindMasks(block, map) ==
  CASE map.kind = NormalKind -> block
    [] map.kind = SingletonKind ->
         WriteAt(block, map.targetFixedSizeInWords * TargetBytesPerWord,
                 MaskBytes(singletonMaskSize(map.targetFixedSizeInWords - 2,
                                             TargetBitsPerWord)
                           * TargetBytesPerWord,
                           SingletonMaskBits(map)))
    [] map.kind = PoolKind ->
         LET maskSize == poolMaskSize(map.targetFixedSizeInWords - 2,
                                      TargetBitsPerWord)
         IN  WriteAt(
               WriteAt(block, map.targetFixedSizeInWords * TargetBytesPerWord,
                       MaskBytes(maskSize * TargetBytesPerWord, PoolFloatBits(map))),
               (map.targetFixedSizeInWords + maskSize) * TargetBytesPerWord,
               MaskBytes(singletonMaskSize(map.targetFixedSizeInWords - 2 + maskSize,
                                           TargetBitsPerWord)
                         * TargetBytesPerWord,
                         PoolObjectBits(map)))

\* copy aborts on a field or element type its switch does not know
ObjectCopyAborts(map, p) ==
  \/ \E i \in 1..map.fixedFieldCount : CopyAborts(map.fixedFields[i].type)
  \/ /\ map.targetArrayElementSizeInBytes # 0
     /\ ArrayLength(p) > 0
     /\ CopyAborts(map.arrayElementType)

\* the bytes copy() leaves in the `size` words at dst
ObjectImage(maps, p, size) ==
  LET map == typeMap(maps, p)
      fixed == CopyFields(UninitBytes(size * TargetBytesPerWord), map, p,
                          map.fixedFields)
  IN  IF map.targetArrayElementSizeInBytes # 0
      THEN CopyElements(fixed, map, p, 0)
      ELSE KindMasks(fixed, map)

---------------------------------------------------------------------------
(* Heap-walk visitor: the Visitor of makeHeapImage *)

\* a patch that stores no number
PatchNothing(number, mark) == Zeros(4)

\* value = number | (mark << BootShift), as the four little-endian bytes of
\* the unsigned it is computed in
PatchValue(number, mark) ==
  <<number % 256, (number \div 256) % 256, (number \div 65536) % 256,
    BitOr((number \div 16777216) % 256, (mark * Pow2(BootShift - 24)) % 256)>>

\* the heap word a reference edge from (currentObject, currentOffset) lives in
VisitSlot(maps, cur) ==
  cur.number - 1
  + (targetOffset(maps, cur.object, cur.offset * BytesPerWord)
     \div TargetBytesPerWord)

\* a markBit on the word after the patched one
MarkNextWord(map, offset, value) == map \cup {offset + 1}

\* a patch that marks no bit
MarkNoWord(map, offset, value) == map

\* if (value) markBit(map, offset)
MarkIfSet(map, offset, value) ==
  IF value # Zeros(4) THEN map \cup {offset} ELSE map

\* a visit that patches the slot of the last push even after pop() or root()
\* has cleared the current object
VisitUnguarded(h, hm, number) ==
  LET offset == IF current.object = Null THEN current.number - 1 + current.offset
                ELSE VisitSlot(typeMaps, current)
      at == offset * TargetBytesPerWord
  IN  IF offset < 0 \/ at + TargetBytesPerWord > Len(h)
      THEN [status |-> "ok", heap |-> h, heapMap |-> hm, slot |-> -1]
      ELSE IF h[at + 1] = Uninit
      THEN [status |-> "undefined", heap |-> h, heapMap |-> hm, slot |-> offset]
      ELSE LET mark == BitAnd(h[at + 1], PointerMaskComplement)
               value == PatchValue(number, mark)
           IN  [status |-> "ok",
                heap |-> WriteAt(h, at, value \o Zeros(TargetBytesPerWord - 4)),
                heapMap |-> MarkIfSet(hm, offset, value),
                slot |-> offset]

\* Visitor::visit(number) on heap bytes h and bitmap hm.  Reading a word that
\* was never written, or one beyond the emitted objects, is undefined.
Visit(h, hm, number) ==
  IF current.object = Null
  THEN [status |-> "ok", heap |-> h, heapMap |-> hm, slot |-> -1]
  ELSE LET offset == VisitSlot(typeMaps, current)
           at == offset * TargetBytesPerWord
       IN  IF offset < 0 \/ at + TargetBytesPerWord > Len(h)
           THEN [status |-> "undefined", heap |-> h, heapMap |-> hm, slot |-> offset]
           ELSE IF h[at + 1] = Uninit
           THEN [status |-> "undefined", heap |-> h, heapMap |-> hm, slot |-> offset]
           ELSE LET mark == BitAnd(h[at + 1], PointerMaskComplement)
                    value == PatchValue(number, mark)
                IN  [status |-> "ok",
                     heap |-> WriteAt(h, at,
                                      value \o Zeros(TargetBytesPerWord - 4)),
                     heapMap |-> MarkIfSet(hm, offset, value),
                     slot |-> offset]

\* a visitNew that allocates every object plain
NeverFixed(cur, p) == FALSE

\* the test that makes visitNew allocate p as a fixed object
IsFixed(cur, p) ==
  \/ /\ cur.object # Null
     /\ objectClass(cur.object) = ClassType
     /\ (cur.offset * BytesPerWord) = ClassStaticTable
  \/ IsSystemClassLoader(p)

\* a fixie header whose size field counts target bytes
FixieHeaderInBytes(size) ==
  WriteAt(
    WriteAt(
      WriteAt(Zeros(TargetFixieSizeInBytes), TargetFixieAge,
              <<FixieTenureThreshold + 1>>),
      TargetFixieHasMask, <<1>>),
    TargetFixieSize, TargetV(LEBytes(size * TargetBytesPerWord, 4)))

\* the fixie header: cleared, then age, hasMask and the 32-bit size
FixieHeader(size) ==
  WriteAt(
    WriteAt(
      WriteAt(Zeros(TargetFixieSizeInBytes), TargetFixieAge,
              <<FixieTenureThreshold + 1>>),
      TargetFixieHasMask, <<1>>),
    TargetFixieSize, TargetV(LEBytes(size, 4)))

\* dst[0] |= FixedMark
MarkFixed(body) == WriteAt(body, 0, <<BitOr(body[1], FixedMark)>>)

\* the words a fixed object of `size` words takes: header, body, mask
FixedTotal(size) ==
  TargetFixieSizeInWords + size + ceiling(size, TargetBytesPerWord)

\* a visitNew that returns the same number for every object
SameNumber(pos, fixed) == 1

\* the object number visitNew returns for an object emitted at `pos`
NewNumber(pos, fixed) ==
  IF fixed THEN pos + TargetFixieSizeInWords + 1 ELSE pos + 1

\* a check that lets an object end exactly at the capacity
FitsInclusive(pos, total, cap) == pos + total <= cap

\* expect(t, position + total < capacity), expect(t, position + size < capacity)
Fits(pos, total, cap) == pos + total < cap

\* the emission of visitNew(p), p not null: the bytes appended at position,
\* the number returned and the new position
Emit(p) ==
  LET size == targetSize(typeMaps, p)
      fixed == IsFixed(current, p)
      total == IF fixed THEN FixedTotal(size) ELSE size
      body == ObjectImage(typeMaps, p, size)
  IN  IF typeMap(typeMaps, p) = NoMap THEN [status |-> "undefined"]
      ELSE IF ~Fits(position, total, capacity) THEN [status |-> "abort"]
      ELSE IF ObjectCopyAborts(typeMap(typeMaps, p), p) THEN [status |-> "abort"]
      ELSE [status |-> "ok",
            fixed |-> fixed,
            size |-> size,
            number |-> NewNumber(position, fixed),
            position |-> position + total,
            bytes |-> IF fixed
                      THEN FixieHeader(size) \o MarkFixed(body)
                           \o Zeros(ceiling(size, TargetBytesPerWord)
                                    * TargetBytesPerWord)
                      ELSE body]

---------------------------------------------------------------------------
(* The VM's heap walker (heapwalk.cpp), which drives the visitor: a
   depth-first walk that numbers an object when it first meets it. *)

\* the word offsets of p's reference members, as the VM's object mask gives them
EdgeSet(p) ==
  LET map == typeMap(typeMaps, p)
  IN  IF map = NoMap THEN {0}
      ELSE {map.fixedFields[i].offset \div BytesPerWord :
              i \in {j \in 1..map.fixedFieldCount :
                       map.fixedFields[j].type = Type_object}}
           \cup (IF map.targetArrayElementSizeInBytes # 0
                    /\ map.arrayElementType = Type_object
                 THEN {map.buildFixedSizeInWords + i : i \in 0..(ArrayLength(p) - 1)}
                 ELSE {})

\* walkNext(t, p, previous): the next reference member after `previous`, or -1
walkNext(p, previous) ==
  LET later == {e \in EdgeSet(p) : e > previous}
  IN  IF later = {} THEN -1 ELSE CHOOSE e \in later : \A d \in later : e <= d

NoWalker ==
  [map |-> <<>>, stack |-> <<>>, mode |-> "idle", pending |-> Null, obj |-> Null,
   next |-> -1, rootsLeft |-> <<>>, root |-> [object |-> Null, dest |-> ""]]

\* what the walker does once a reference has been visited
AfterVisit(w, stack) ==
  [w EXCEPT !.stack = stack, !.pending = Null,
            !.mode = IF stack = <<>> THEN "idle" ELSE "pop"]

\* what the walker does once p has been numbered: descend into its members
AfterNew(w, p) ==
  IF walkNext(p, -1) = -1 THEN AfterVisit(w, w.stack)
  ELSE [w EXCEPT !.mode = "children", !.obj = p, !.next = walkNext(p, -1),
                 !.pending = Null]

\* HeapMap::find: the number of p, 0 when the walk never numbered it
Find(w, p) == IF p \in DOMAIN w.map THEN w.map[p] ELSE 0

\* visitRoot's result goes to the header member the root is kept in
RootResult(img, w) ==
  IF w.mode = "idle" /\ w.root.dest # ""
  THEN [img EXCEPT ![w.root.dest] = Find(w, w.root.object)]
  ELSE img

Stop(status) == IF status = "abort" THEN "aborted" ELSE "undefined"

\* most heap words a visitNew takes for an object it has no TypeMap for
MaxGarbageWords == 1

\* typeMap() hands out the body of whatever hashMapFind returns; for a
\* missing entry that is a pointer just above address 0, and targetSize and
\* copy read a TypeMap there.  The read ends the process, or yields a size
\* and field count nothing has set: visitNew then takes that many words of
\* the heap buffer for the object.
GarbageSizes(status) ==
  IF status = "undefined" THEN 0..MaxGarbageWords ELSE {0}

\* HeapWalker::visitRoot(p): Visitor::root(), then the visit of p
Root ==
  /\ pc = "walk"
  /\ walker.mode = "idle"
  /\ walker.rootsLeft # <<>>
  /\ current' = [current EXCEPT !.object = Null]
  /\ walker' = [walker EXCEPT !.mode = "visit",
                              !.pending = Head(walker.rootsLeft).object,
                              !.root = Head(walker.rootsLeft),
                              !.rootsLeft = Tail(walker.rootsLeft)]
  /\ log' = Append(log, [op |-> "root"])
  /\ UNCHANGED <<scan, copied, abi, built, vm, typeMaps, heap, heapMap, position, capacity,
                 code, image, out, pc, io, tables>>

\* Visitor::visitNew(p), called for a reference the walker has no number for
VisitNew ==
  /\ pc = "walk"
  /\ walker.mode = "visit"
  /\ walker.pending \notin DOMAIN walker.map
  /\ LET p == walker.pending
         e == IF p = Null THEN [status |-> "null"] ELSE Emit(p)
         v == IF e.status = "ok" THEN Visit(heap \o e.bytes, heapMap, e.number)
              ELSE [status |-> e.status]
         w == IF v.status = "ok"
              THEN AfterNew([walker EXCEPT !.map = (p :> e.number) @@ @], p)
              ELSE AfterVisit(walker, walker.stack)
     IN  IF p = Null
         THEN /\ walker' = w
              /\ image' = RootResult(image, w)
              /\ log' = Append(log, [op |-> "new", p |-> p, number |-> 0])
              /\ UNCHANGED <<heap, heapMap, position, pc>>
         ELSE IF v.status = "ok"
         THEN /\ heap' = v.heap
              /\ heapMap' = v.heapMap
              /\ position' = e.position
              /\ walker' = w
              /\ image' = RootResult(image, w)
              /\ log' = Append(log, [op |-> "new", p |-> p, number |-> e.number,
                                     before |-> position, after |-> e.position,
                                     size |-> e.size,
                                     parent |-> current.object,
                                     edge |-> current.offset, slot |-> v.slot])
              /\ UNCHANGED pc
         ELSE /\ pc' = Stop(v.status)
              /\ \E words \in GarbageSizes(e.status) :
                   /\ heap' = heap \o UninitBytes(words * TargetBytesPerWord)
                   /\ position' = position + words
              /\ UNCHANGED <<heapMap, walker, image, log>>
  /\ UNCHANGED <<scan, copied, abi, built, vm, typeMaps, capacity, current, code, out, io, tables>>

\* Visitor::visitOld(p, number), called for a reference already numbered
VisitOld ==
  /\ pc = "walk"
  /\ walker.mode = "visit"
  /\ walker.pending \in DOMAIN walker.map
  /\ LET p == walker.pending
         v == Visit(heap, heapMap, walker.map[p])
         w == AfterVisit(walker, walker.stack)
     IN  IF v.status = "ok"
         THEN /\ heap' = v.heap
              /\ heapMap' = v.heapMap
              /\ walker' = w
              /\ image' = RootResult(image, w)
              /\ log' = Append(log, [op |-> "old", p |-> p, number |-> walker.map[p],
                                     parent |-> current.object,
                                     edge |-> current.offset, slot |-> v.slot])
              /\ UNCHANGED pc
         ELSE /\ pc' = Stop(v.status)
              /\ UNCHANGED <<heap, heapMap, walker, image, log>>
  /\ UNCHANGED <<scan, copied, abi, built, vm, typeMaps, position, capacity, current, code, out, io, tables>>

\* Visitor::push(object, number, offset), before the walker follows a member
Push ==
  /\ pc = "walk"
  /\ walker.mode = "children"
  /\ current' = [object |-> walker.obj, number |-> walker.map[walker.obj],
                 offset |-> walker.next]
  /\ walker' = [walker EXCEPT
                  !.stack = Append(@, [object |-> walker.obj, offset |-> walker.next]),
                  !.pending = Ref(walker.obj, walker.next),
                  !.mode = "visit"]
  /\ log' = Append(log, [op |-> "push"])
  /\ UNCHANGED <<scan, copied, abi, built, vm, typeMaps, heap, heapMap, position, capacity,
                 code, image, out, pc, io, tables>>

\* Visitor::pop(), after the walker has followed a member
Pop ==
  /\ pc = "walk"
  /\ walker.mode = "pop"
  /\ current' = [current EXCEPT !.object = Null]
  /\ LET top == walker.stack[Len(walker.stack)]
         rest == SubSeq(walker.stack, 1, Len(walker.stack) - 1)
         next == walkNext(top.object, top.offset)
         w == IF next = -1 THEN AfterVisit(walker, rest)
              ELSE [walker EXCEPT !.stack = rest, !.mode = "children",
                                  !.obj = top.object, !.next = next]
     IN  /\ walker' = w
         /\ image' = RootResult(image, w)
  /\ log' = Append(log, [op |-> "pop"])
  /\ UNCHANGED <<scan, copied, abi, built, vm, typeMaps, heap, heapMap, position, capacity,
                 code, out, pc, io, tables>>

\* makeHeapImage once visitRoots has returned: the heap size goes to the header
FinishHeapImage ==
  /\ pc = "walk"
  /\ walker.mode = "idle"
  /\ walker.rootsLeft = <<>>
  /\ image' = [image EXCEPT !.heapSize = position * BytesPerWord]
  /\ pc' = "updateConstants"
  /\ UNCHANGED <<scan, copied, abi, built, vm, typeMaps, heap, heapMap, position, capacity,
                 current, walker, log, code, out, io, tables>>

---------------------------------------------------------------------------
(* The VM heaps the writer is run on *)

\* the word offset of the (one) object field of a partition of the class
ObjectFieldWord(c, static) ==
  LET at == {c.fieldTable[i].offset \div BytesPerWord :
               i \in {j \in 1..Len(c.fieldTable) :
                        /\ c.fieldTable[j].static = static
                        /\ c.fieldTable[j].code = ObjectField}}
  IN  IF at = {} THEN -1 ELSE CHOOSE w \in at : TRUE

\* the boot loader's class map, in iteration order
BootClasses == <<ClassType, SystemClassLoaderType, SingletonType, ArrayType, UserClass>>

\* a VM whose scanned class declares `specs`; L, P, S and R are what the
\* classes' loader member, the boot loader's parent, the class's static object
\* field and the instance's object field refer to
MakeVm(specs, L, P, S, R, strings, vtableLength) ==
  LET c == HostClass(specs)
  IN  [fieldSpecs |-> specs,
       cls |-> [o \in Objects |->
                  CASE o \in Classes -> ClassType
                    [] o \in {BootLoader, AppLoader} -> SystemClassLoaderType
                    [] o = StaticTable -> SingletonType
                    [] o = Instance -> UserClass
                    [] o = TypesArray -> ArrayType],
       refs |-> [o \in Objects |->
                  CASE o = UserClass ->
                         (ClassStaticTable \div BytesPerWord :>
                            (IF c.hasStaticTable THEN StaticTable ELSE Null))
                         @@ (ClassLoader \div BytesPerWord :> L)
                    [] o \in Classes \ {UserClass} ->
                         (ClassStaticTable \div BytesPerWord :> Null)
                         @@ (ClassLoader \div BytesPerWord :> L)
                    [] o = BootLoader -> (1 :> P)
                    [] o = AppLoader -> (1 :> BootLoader)
                    [] o = StaticTable -> (ObjectFieldWord(c, TRUE) :> S)
                    [] o = Instance -> (ObjectFieldWord(c, FALSE) :> R)
                    [] o = TypesArray -> [i \in 2..(Len(VmTypes) + 1) |-> VmTypes[i - 1]]],
       length |-> [o \in Objects |->
                     CASE o \in Classes -> vtableLength
                       [] o = TypesArray -> Len(VmTypes)
                       [] OTHER -> 0],
       bootClasses |-> BootClasses,
       appClasses |-> <<>>,
       strings |-> strings,
       processorRoots |-> <<>>,
       pool |-> <<CONSTANT_Class, CONSTANT_Long>>]


HasStatics(specs) == \E i \in 1..Len(specs) : specs[i].static

\* every VM heap of the model
Vms ==
  {MakeVm(specs, L, P, S, R, strings, n) :
     specs \in UserFieldSpecs, L \in {Null, BootLoader},
     P \in {Null, StaticTable}, S \in {Null, Instance},
     R \in {BootLoader}, strings \in {<<Instance>>}, n \in {0, MaxLength}}

\* a reference to the static table needs the class to have one
WellFormedVm(v) ==
  HasStatics(v.fieldSpecs)
  \/ /\ v.refs[BootLoader][1] # StaticTable
     /\ \A w \in DOMAIN v.refs[StaticTable] : v.refs[StaticTable][w] = Null

\* the runtime constant pool of the scanned class (the key of its Pool map)
UserPool == "UserPool"

\* the TypeMaps the class scan and the descriptor loop install for a VM
ScannedTypeMaps(v) ==
  LET c == HostClass(v.fieldSpecs)
  IN  (UserPool :> PoolTypeMap(v.pool))
      @@ (UserClass :> MemberTypeMap(c))
      @@ (IF c.hasStaticTable THEN (StaticTable :> StaticTypeMap(c)) ELSE <<>>)

DescriptorTypeMaps == [type \in {VmTypes[i] : i \in 1..Len(VmTypes)} |->
                         VmTypeMap(TypeDescriptor(type))]

\* hashMapInsertOrReplace for every VM type, over the scan's entries
InstalledTypeMaps(scanned) == DescriptorTypeMaps @@ scanned

\* the roots visitRoots enumerates, in order, with the header member the
\* result of three of them is kept in
Roots(v, constants) ==
  [i \in 1..Len(v.bootClasses) |-> [object |-> v.bootClasses[i], dest |-> ""]]
  \o <<[object |-> BootLoader, dest |-> "bootLoader"],
       [object |-> AppLoader, dest |-> "appLoader"],
       [object |-> TypesArray, dest |-> "types"]>>
  \o [i \in 1..Len(v.processorRoots) |-> [object |-> v.processorRoots[i], dest |-> ""]]
  \o [i \in 1..Len(constants) |-> [object |-> constants[i].object, dest |-> ""]]

NoCode ==
  [calls |-> <<>>, addresses |-> <<>>, constants |-> <<>>, imm |-> <<>>, map |-> {},
   size |-> 0]

NoImage ==
  [magic |-> "unset", codeBase |-> "unset", heapSize |-> 0, codeSize |-> 0, bootClassCount |-> 0,
   appClassCount |-> 0, stringCount |-> 0, callCount |-> 0, bootLoader |-> 0,
   appLoader |-> 0, types |-> 0]

NoIo == [ac |-> 0, status |-> 0, failedWrites |-> 0, exception |-> FALSE]

NoTables == [bootClassTable |-> <<>>, appClassTable |-> <<>>, stringTable |-> <<>>,
             callTable |-> <<>>]

NoCurrent == [object |-> Null, number |-> 0, offset |-> 0]

NoScan == [classpath |-> <<>>, entries |-> <<>>, done |-> <<>>]

NoCopied == [type |-> Type_none, src |-> <<>>, at |-> 0, dst |-> <<>>]

\* makeHeapImage on its own: the Visitor as constructed, every TypeMap
\* installed, one deferred constant (the instance) among the roots
InitWalk ==
  /\ abi \in {a \in Abis : a.TargetBigEndian => a.BytesPerWord = a.TargetBytesPerWord}
  /\ built = NoBuilt
  /\ vm \in {v \in Vms : WellFormedVm(v)}
  /\ typeMaps = InstalledTypeMaps(ScannedTypeMaps(vm))
  /\ heap = <<>>
  /\ heapMap = {}
  /\ position = 0
  /\ capacity = HeapCapacity \div TargetBytesPerWord
  /\ current = NoCurrent
  /\ code = [NoCode EXCEPT !.constants = <<[object |-> Instance, listeners |-> <<>>]>>]
  /\ walker = [NoWalker EXCEPT !.rootsLeft = Roots(vm, code.constants)]
  /\ log = <<>>
  /\ image = NoImage
  /\ out = <<>>
  /\ pc = "walk"
  /\ io = NoIo
  /\ tables = NoTables
  /\ scan = NoScan
  /\ copied = NoCopied

NextWalk == Root \/ VisitNew \/ VisitOld \/ Push \/ Pop \/ FinishHeapImage

SpecWalk == InitWalk /\ [][NextWalk]_vars

\* the largest of the small heap buffers, in target words
MaxCapacity == 24

\* the capacities the Visitor is constructed with: the writer's own, and heap
\* buffers too small for the walk
Capacities == (1..MaxCapacity) \cup {HeapCapacity \div TargetBytesPerWord}

\* makeHeapImage(t, image, heap, map, capacity, constants, typeMaps) for a
\* heap buffer of any of these capacities
InitWalkBounded ==
  /\ abi \in {a \in Abis : ~a.TargetBigEndian}
  /\ built = NoBuilt
  /\ vm \in {v \in Vms : WellFormedVm(v) /\ v.length[UserClass] = 0}
  /\ typeMaps = InstalledTypeMaps(ScannedTypeMaps(vm))
  /\ heap = <<>>
  /\ heapMap = {}
  /\ position = 0
  /\ capacity \in Capacities
  /\ current = NoCurrent
  /\ code = [NoCode EXCEPT !.constants = <<[object |-> Instance, listeners |-> <<>>]>>]
  /\ walker = [NoWalker EXCEPT !.rootsLeft = Roots(vm, code.constants)]
  /\ log = <<>>
  /\ image = NoImage
  /\ out = <<>>
  /\ pc = "walk"
  /\ io = NoIo
  /\ tables = NoTables
  /\ scan = NoScan
  /\ copied = NoCopied

SpecWalkBounded == InitWalkBounded /\ [][NextWalk]_vars

\* the TypeMaps in place when the walk starts: those of every class when no
\* class filter is given, only the VM types' when the filter keeps the
\* scanned class out of the loop body (the class is loaded all the same, as
\* the superclass of a class the filter lets in)
FilteredTypeMaps(v) == {InstalledTypeMaps(ScannedTypeMaps(v)), InstalledTypeMaps(<<>>)}

\* makeHeapImage after a class scan with or without a class filter
InitWalkFiltered ==
  /\ abi \in {a \in Abis : ~a.TargetBigEndian}
  /\ built = NoBuilt
  /\ vm \in {v \in Vms : WellFormedVm(v) /\ v.length[UserClass] = 0}
  /\ typeMaps \in FilteredTypeMaps(vm)
  /\ heap = <<>>
  /\ heapMap = {}
  /\ position = 0
  /\ capacity = HeapCapacity \div TargetBytesPerWord
  /\ current = NoCurrent
  /\ code = [NoCode EXCEPT !.constants = <<[object |-> Instance, listeners |-> <<>>]>>]
  /\ walker = [NoWalker EXCEPT !.rootsLeft = Roots(vm, code.constants)]
  /\ log = <<>>
  /\ image = NoImage
  /\ out = <<>>
  /\ pc = "walk"
  /\ io = NoIo
  /\ tables = NoTables
  /\ scan = NoScan
  /\ copied = NoCopied

SpecWalkFiltered == InitWalkFiltered /\ [][NextWalk]_vars

InitTypeMap ==
  /\ abi \in {a \in Abis : ~a.TargetBigEndian}
  /\ built = NoBuilt
  /\ vm = [fieldSpecs |-> <<>>]
  /\ typeMaps = <<>>
  /\ heap = <<>>
  /\ heapMap = {}
  /\ position = 0
  /\ capacity = 0
  /\ current = NoCurrent
  /\ code = NoCode
  /\ walker = NoWalker
  /\ log = <<>>
  /\ image = NoImage
  /\ out = <<>>
  /\ pc = "typemaps"
  /\ io = NoIo
  /\ tables = NoTables
  /\ scan = NoScan
  /\ copied = NoCopied

SpecTypeMap == InitTypeMap /\ [][NextTypeMap]_vars

---------------------------------------------------------------------------
(* The class scan: makeCodeImage's loop over the entries of the classpath.
   A string is the sequence of its characters; a char* argument is a
   sequence holding no string (a null pointer) or one string. *)

\* most entries on the classpath
MaxEntries == 2

Nul == "NUL"

\* s[i] of a C string (0-based), the terminator past its last character
CharAt(s, i) == IF i < Len(s) THEN s[i + 1] ELSE Nul

\* strncmp(a, b, n) from character i on: 0 when equal, 1 otherwise
RECURSIVE StrncmpFrom(_, _, _, _)
StrncmpFrom(a, b, i, n) ==
  IF i >= n THEN 0
  ELSE IF CharAt(a, i) # CharAt(b, i) THEN 1
  ELSE IF CharAt(a, i) = Nul THEN 0
  ELSE StrncmpFrom(a, b, i + 1, n)

strncmp(a, b, n) == StrncmpFrom(a, b, 0, n)

\* strcmp(a, b): the comparison runs to the terminator
strcmp(a, b) == StrncmpFrom(a, b, 0, Max(Len(a), Len(b)) + 1)

\* memcmp(a, b + at, n) = 0
MemEqual(a, b, at, n) == \A i \in 1..n : a[i] = b[at + i]

endsWith(suffix, s, length) ==
  LET suffixLength == Len(suffix)
  IN  length >= suffixLength
      /\ MemEqual(suffix, s, length - suffixLength, suffixLength)

ClassSuffix == <<".", "c", "l", "a", "s", "s">>

\* the names the classpath's entries may have
EntryNames ==
  {<<"A">> \o ClassSuffix, <<"A", "B">> \o ClassSuffix, <<"B">> \o ClassSuffix,
   <<"A", ".", "t", "x", "t">>, <<"c", "l", "a", "s", "s">>}

\* the names a class-name, method-name or method-spec argument may have
FilterNames == {<<"A">>, <<"A", "B">>, <<"C">>}

\* the method table of every class of the classpath: two methods with code,
\* a native one and an abstract one
MethodTable ==
  <<[name |-> <<"A">>, spec |-> <<"A">>, code |-> TRUE, native |-> FALSE],
    [name |-> <<"A", "B">>, spec |-> <<"A">>, code |-> TRUE, native |-> FALSE],
    [name |-> <<"A">>, spec |-> <<"A", "B">>, code |-> FALSE, native |-> TRUE],
    [name |-> <<"A">>, spec |-> <<"A">>, code |-> FALSE, native |-> FALSE]>>

\* the class file of the class named `stem`: its constant pool and fields
ClassFile(stem) ==
  IF stem = <<"A">>
  THEN [pool |-> <<CONSTANT_Class, CONSTANT_Long>>,
        fieldSpecs |-> <<[code |-> IntField, static |-> FALSE],
                         [code |-> ObjectField, static |-> TRUE]>>]
  ELSE IF stem = <<"B">>
  THEN [pool |-> <<CONSTANT_Utf8>>,
        fieldSpecs |-> <<[code |-> LongField, static |-> FALSE]>>]
  ELSE [pool |-> <<CONSTANT_Class>>, fieldSpecs |-> <<>>]

\* the test that lets an entry of the classpath into the loop body
EntryPasses(name, nameSize, className) ==
  /\ endsWith(ClassSuffix, name, nameSize)
  /\ (className = <<>> \/ strncmp(name, className[1], nameSize - 6) = 0)

\* the test that lets a method of the class into the compile step
MethodPasses(method, methodName, methodSpec) ==
  /\ (methodName = <<>> \/ strcmp(method.name, methodName[1]) = 0)
  /\ (methodSpec = <<>> \/ strcmp(method.spec, methodSpec[1]) = 0)

\* the methods compileMethod is called for
CompiledMethods(methods, methodName, methodSpec) ==
  {i \in 1..Len(methods) :
     /\ MethodPasses(methods[i], methodName, methodSpec)
     /\ (methods[i].code \/ methods[i].native)}

\* the TypeMaps one pass of the loop body inserts for the class named `stem`
\* whose resolved class is c
ClassTypeMaps(stem, c) ==
  LET found == (<<"pool", stem>> :> PoolTypeMap(ClassFile(stem).pool))
               @@ (<<"class", stem>> :> FieldTypeMaps(c)[1])
               @@ (<<"staticTable", stem>> :> FieldTypeMaps(c)[2])
  IN  [k \in {j \in DOMAIN found : found[j] # NoMap} |-> found[k]]

\* one pass of the loop over the classpath
ScanEntry ==
  /\ pc = "scan"
  /\ scan.entries # <<>>
  /\ LET name == Head(scan.entries)
         nameSize == Len(name)
         stem == SubSeq(name, 1, nameSize - 6)
     IN  IF EntryPasses(name, nameSize, scan.className)
         THEN \E c \in HostClasses(ClassFile(stem).fieldSpecs) :
                LET maps == ClassTypeMaps(stem, c)
                IN  IF \E k \in DOMAIN maps : maps[k] = Aborted
                    THEN /\ pc' = "aborted"
                         /\ UNCHANGED <<typeMaps, scan>>
                    ELSE /\ typeMaps' = maps @@ typeMaps
                         /\ scan' = [scan EXCEPT
                                       !.entries = Tail(@),
                                       !.done = Append(@,
                                         [name |-> name, class |-> stem,
                                          fields |-> ClassFile(stem).fieldSpecs,
                                          compiled |-> CompiledMethods(MethodTable,
                                                         scan.methodName,
                                                         scan.methodSpec)])]
                         /\ UNCHANGED pc
         ELSE /\ scan' = [scan EXCEPT !.entries = Tail(@)]
              /\ UNCHANGED <<typeMaps, pc>>
  /\ UNCHANGED <<copied, abi, built, vm, heap, heapMap, position, capacity, current,
                 walker, log, code, image, out, io, tables>>

\* the loop is left once the iterator has no more entries
ScanDone ==
  /\ pc = "scan"
  /\ scan.entries = <<>>
  /\ pc' = "calls"
  /\ UNCHANGED <<scan, copied, abi, built, vm, typeMaps, heap, heapMap, position,
                 capacity, current, walker, log, code, image, out, io, tables>>

\* main hands av[3], av[4] and av[5] on when ac says they are there
Filters ==
  {f \in [className : {<<>>} \cup {<<n>> : n \in FilterNames},
          methodName : {<<>>} \cup {<<n>> : n \in FilterNames},
          methodSpec : {<<>>} \cup {<<n>> : n \in FilterNames}] :
     /\ (f.methodName # <<>> => f.className # <<>>)
     /\ (f.methodSpec # <<>> => f.methodName # <<>>)}

InitScan ==
  /\ abi \in {a \in Abis : ~a.TargetBigEndian /\ a.BytesPerWord = a.TargetBytesPerWord}
  /\ built = NoBuilt
  /\ vm = [fieldSpecs |-> <<>>]
  /\ typeMaps = <<>>
  /\ heap = <<>>
  /\ heapMap = {}
  /\ position = 0
  /\ capacity = 0
  /\ current = NoCurrent
  /\ code = NoCode
  /\ walker = NoWalker
  /\ log = <<>>
  /\ image = NoImage
  /\ out = <<>>
  /\ pc = "scan"
  /\ io = NoIo
  /\ tables = NoTables
  /\ \E f \in Filters, entries \in SeqsUpTo(EntryNames, MaxEntries) :
       scan = [className |-> f.className, methodName |-> f.methodName,
               methodSpec |-> f.methodSpec, classpath |-> entries,
               entries |-> entries, done |-> <<>>]
  /\ copied = NoCopied

NextScan == ScanEntry \/ ScanDone

SpecScan == InitScan /\ [][NextScan]_vars

---------------------------------------------------------------------------
(* The field transcoder on its own: copy(t, src, dst, type) applied to one
   field of every type, for every host and target word size and both target
   byte orders.  src is the eight build bytes at the field's build offset,
   dst a block nothing has written. *)

\* the 32-bit values the two halves of the build bytes hold
FieldValues == {0, 16909060, 2130771712}

\* the target offsets the field is copied to
FieldOffsets == {0, 4, 8}

\* the size of the block dst points into
BlockSize == 16

FieldTypes ==
  {Type_object, Type_int8_t, Type_int16_t, Type_int32_t, Type_float,
   Type_int64_t, Type_double, Type_int64_t_pad, Type_double_pad, Type_intptr_t,
   Type_array}

CopyOne ==
  /\ pc = "copy"
  /\ \E type \in FieldTypes, low \in FieldValues, high \in FieldValues,
        at \in FieldOffsets :
       LET src == LEBytes(low, 4) \o LEBytes(high, 4)
       IN  IF CopyAborts(type)
           THEN /\ pc' = "aborted"
                /\ copied' = [type |-> type, src |-> src, at |-> at,
                              dst |-> UninitBytes(BlockSize)]
           ELSE /\ pc' = "copied"
                /\ copied' = [type |-> type, src |-> src, at |-> at,
                              dst |-> WriteAt(UninitBytes(BlockSize), at,
                                              CopyField(src, type))]
  /\ UNCHANGED <<scan, abi, built, vm, typeMaps, heap, heapMap, position, capacity,
                 current, walker, log, code, image, out, io, tables>>

InitCopy ==
  /\ abi \in Abis
  /\ built = NoBuilt
  /\ vm = [fieldSpecs |-> <<>>]
  /\ typeMaps = <<>>
  /\ heap = <<>>
  /\ heapMap = {}
  /\ position = 0
  /\ capacity = 0
  /\ current = NoCurrent
  /\ code = NoCode
  /\ walker = NoWalker
  /\ log = <<>>
  /\ image = NoImage
  /\ out = <<>>
  /\ pc = "copy"
  /\ io = NoIo
  /\ tables = NoTables
  /\ scan = NoScan
  /\ copied = NoCopied

SpecCopy == InitCopy /\ [][CopyOne]_vars

---------------------------------------------------------------------------
(* Code-constant resolver: the deferred lists the compiler leaves and the
   three passes over them.  Locations and values are byte offsets from the
   start of the code buffer; a negative one lies below the buffer. *)

\* what compileMethod may leave for the scanned class's methods
DeferredSets ==
  {[calls |-> <<>>, addresses |-> <<>>, constants |-> <<>>],
   [calls |-> <<[native |-> FALSE, location |-> 0]>>,
    addresses |-> <<>>,
    constants |-> <<>>],
   [calls |-> <<[native |-> TRUE, location |-> 0]>>,
    addresses |-> <<[value |-> 4, location |-> 8, flat |-> TRUE]>>,
    constants |-> <<[object |-> Instance,
                     listeners |-> <<[location |-> 16, flat |-> FALSE],
                                     [location |-> 24, flat |-> TRUE]>>]>>],
   [calls |-> <<>>,
    addresses |-> <<[value |-> 4, location |-> 8, flat |-> FALSE]>>,
    constants |-> <<[object |-> Instance,
                     listeners |-> <<[location |-> 16, flat |-> TRUE]>>]>>],
   [calls |-> <<[native |-> FALSE, location |-> 0]>>,
    addresses |-> <<[value |-> 4, location |-> 8, flat |-> FALSE],
                    [value |-> -4, location |-> 32, flat |-> FALSE]>>,
    constants |-> <<>>]}

\* a method-call pass that leaves the call's immediate alone
SkipCall(c, call) == c

\* one iteration of the method-call pass: the listener is resolved at the
\* method's address and patches its immediate; no bit is marked
ResolveCall(c, call) ==
  [c EXCEPT !.imm = (call.location :>
                       [kind |-> "call",
                        value |-> IF call.native THEN "nativeThunk" ELSE "compiled",
                        flat |-> FALSE]) @@ @]

\* an address pass that marks no bit
ResolveAddressUnmarked(c, a) ==
  [c EXCEPT !.imm = (a.location :>
                       [kind |-> "address", value |-> a.value, flat |-> a.flat]) @@ @]

\* one iteration of the address pass, past its first expect: the immediate
\* (value - code) | flat is stored at the location and its bit is marked
ResolveAddress(c, a) ==
  [c EXCEPT !.imm = (a.location :>
                       [kind |-> "address", value |-> a.value, flat |-> a.flat]) @@ @,
            !.map = @ \cup {a.location}]

\* one listener of a deferred heap constant: target | BootHeapOffset | flat
ResolveConstant(c, target, pl) ==
  [c EXCEPT !.imm = (pl.location :>
                       [kind |-> "constant", value |-> target, flat |-> pl.flat]) @@ @,
            !.map = @ \cup {pl.location}]

RECURSIVE CallPass(_, _)
CallPass(c, calls) ==
  IF calls = <<>> THEN c ELSE CallPass(ResolveCall(c, Head(calls)), Tail(calls))

\* the address pass: expect(value >= code) before an entry is resolved,
\* expect(location >= code) after it has been stored
RECURSIVE AddressPass(_, _)
AddressPass(c, addresses) ==
  IF addresses = <<>> THEN [code |-> c, aborted |-> FALSE]
  ELSE IF Head(addresses).value < 0 THEN [code |-> c, aborted |-> TRUE]
  ELSE IF Head(addresses).location < 0
  THEN [code |-> [c EXCEPT !.imm = (Head(addresses).location :>
                                      [kind |-> "address",
                                       value |-> Head(addresses).value,
                                       flat |-> Head(addresses).flat]) @@ @],
        aborted |-> TRUE]
  ELSE AddressPass(ResolveAddress(c, Head(addresses)), Tail(addresses))

RECURSIVE ListenerPass(_, _, _)
ListenerPass(c, target, listeners) ==
  IF listeners = <<>> THEN c
  ELSE ListenerPass(ResolveConstant(c, target, Head(listeners)), target,
                    Tail(listeners))

\* updateConstants: expect(target > 0) for every constant, then its listeners
RECURSIVE ConstantPass(_, _, _)
ConstantPass(c, constants, heapTable) ==
  IF constants = <<>> THEN [code |-> c, aborted |-> FALSE]
  ELSE IF ~(Find(heapTable, Head(constants).object) > 0)
  THEN [code |-> c, aborted |-> TRUE]
  ELSE ConstantPass(ListenerPass(c, Find(heapTable, Head(constants).object),
                                 Head(constants).listeners),
                    Tail(constants), heapTable)

---------------------------------------------------------------------------
(* main and writeBootImage2, from the command line to the exit status *)

\* largest argument count tried (ac counts the program name)
MaxArgc == 7

\* most fwrite calls that fail in one run
MaxFailedWrites == 1

\* main: the argument check
Main ==
  /\ pc = "main"
  /\ \E ac \in 1..MaxArgc :
       IF ac < 3 \/ ac > 6
       THEN /\ io' = [io EXCEPT !.ac = ac, !.status = -1]
            /\ pc' = "exit"
       ELSE /\ io' = [io EXCEPT !.ac = ac]
            /\ pc' = "fopen"
  /\ UNCHANGED <<scan, copied, abi, built, vm, typeMaps, heap, heapMap, position, capacity,
                 current, walker, log, code, image, out, tables>>

\* main: the VM is set up and the output file opened
Fopen ==
  /\ pc = "fopen"
  /\ \E opened \in BOOLEAN :
       IF opened
       THEN /\ pc' = "makeCodeImage"
            /\ UNCHANGED io
       ELSE /\ io' = [io EXCEPT !.status = -1]
            /\ pc' = "exit"
  /\ UNCHANGED <<scan, copied, abi, built, vm, typeMaps, heap, heapMap, position, capacity,
                 current, walker, log, code, image, out, tables>>

\* the bytes of code the compiler emitted for a deferred set
CodeSize(d) ==
  IF d.calls = <<>> /\ d.addresses = <<>> /\ d.constants = <<>> THEN 0 ELSE 40

\* makeCodeImage, the loop over the classpath: each class is resolved, its
\* Pool, member and static TypeMaps are inserted and its methods compiled.
\* Resolving or compiling may throw, which ends the run with the exception
\* pending.
ScanClasses ==
  /\ pc = "makeCodeImage"
  /\ \E d \in DeferredSets, thrown \in BOOLEAN :
       LET scanned == ScannedTypeMaps(vm)
       IN  IF thrown
           THEN /\ io' = [io EXCEPT !.exception = TRUE]
                /\ pc' = "fclose"
                /\ UNCHANGED <<typeMaps, code, image>>
           ELSE IF \E k \in DOMAIN scanned : scanned[k] = Aborted
           THEN /\ pc' = "aborted"
                /\ UNCHANGED <<typeMaps, code, image, io>>
           ELSE /\ typeMaps' = [k \in {j \in DOMAIN scanned : scanned[j] # NoMap}
                                  |-> scanned[k]]
                /\ code' = [NoCode EXCEPT !.calls = d.calls,
                                          !.addresses = d.addresses,
                                          !.constants = d.constants,
                                          !.size = CodeSize(d)]
                /\ image' = [image EXCEPT !.codeSize = CodeSize(d)]
                /\ pc' = "calls"
                /\ UNCHANGED io
  /\ UNCHANGED <<scan, copied, abi, built, vm, heap, heapMap, position, capacity, current,
                 walker, log, out, tables>>

\* makeCodeImage, the loop over the deferred calls
ResolveCalls ==
  /\ pc = "calls"
  /\ code' = CallPass(code, code.calls)
  /\ pc' = "addresses"
  /\ UNCHANGED <<scan, copied, abi, built, vm, typeMaps, heap, heapMap, position, capacity,
                 current, walker, log, image, out, io, tables>>

\* makeCodeImage, the loop over the deferred addresses
ResolveAddresses ==
  /\ pc = "addresses"
  /\ code' = AddressPass(code, code.addresses).code
  /\ pc' = IF AddressPass(code, code.addresses).aborted THEN "aborted" ELSE "typeMaps"
  /\ UNCHANGED <<scan, copied, abi, built, vm, typeMaps, heap, heapMap, position, capacity,
                 current, walker, log, image, out, io, tables>>

\* writeBootImage2, the loop over the VM's type descriptors
InstallVmTypeMaps ==
  /\ pc = "typeMaps"
  /\ typeMaps' = InstalledTypeMaps(typeMaps)
  /\ pc' = IF \E k \in DOMAIN DescriptorTypeMaps : DescriptorTypeMaps[k] = Aborted
           THEN "aborted" ELSE "makeHeapImage"
  /\ UNCHANGED <<scan, copied, abi, built, vm, heap, heapMap, position, capacity, current,
                 walker, log, code, image, out, io, tables>>

\* the heap buffer is allocated, the bitmap cleared, the Visitor constructed
\* and visitRoots entered
MakeHeapImage ==
  /\ pc = "makeHeapImage"
  /\ heap' = <<>>
  /\ heapMap' = {}
  /\ position' = 0
  /\ capacity' = HeapCapacity \div TargetBytesPerWord
  /\ current' = NoCurrent
  /\ walker' = [NoWalker EXCEPT !.rootsLeft = Roots(vm, code.constants)]
  /\ pc' = "walk"
  /\ UNCHANGED <<scan, copied, abi, built, vm, typeMaps, log, code, image, out, io, tables>>

UpdateConstants ==
  /\ pc = "updateConstants"
  /\ code' = ConstantPass(code, code.constants, walker).code
  /\ pc' = IF ConstantPass(code, code.constants, walker).aborted
           THEN "aborted" ELSE "tables"
  /\ UNCHANGED <<scan, copied, abi, built, vm, typeMaps, heap, heapMap, position, capacity,
                 current, walker, log, image, out, io, tables>>

\* the three index tables, each entry the number of the object, and the
\* processor's call table
BuildTables ==
  /\ pc = "tables"
  /\ image' = [image EXCEPT !.bootClassCount = Len(vm.bootClasses),
                            !.appClassCount = Len(vm.appClasses),
                            !.stringCount = Len(vm.strings),
                            !.callCount = Len(code.calls)]
  /\ tables' = [bootClassTable |-> [i \in 1..Len(vm.bootClasses) |->
                                      Find(walker, vm.bootClasses[i])],
                appClassTable |-> [i \in 1..Len(vm.appClasses) |->
                                     Find(walker, vm.appClasses[i])],
                stringTable |-> [i \in 1..Len(vm.strings) |->
                                   Find(walker, vm.strings[i])],
                callTable |-> [i \in 1..Len(code.calls) |-> code.calls[i].location]]
  /\ pc' = "header"
  /\ UNCHANGED <<scan, copied, abi, built, vm, typeMaps, heap, heapMap, position, capacity,
                 current, walker, log, code, out, io>>

Magic == "BootImage::Magic"

SetHeader ==
  /\ pc = "header"
  /\ image' = [image EXCEPT !.magic = Magic, !.codeBase = "code"]
  /\ pc' = "writeHeader"
  /\ UNCHANGED <<scan, copied, abi, built, vm, typeMaps, heap, heapMap, position, capacity,
                 current, walker, log, code, out, io, tables>>

---------------------------------------------------------------------------
(* Serializer: the fwrite calls of writeBootImage2.  The result of fwrite is
   not looked at, so a call that fails is followed by the next one. *)

\* the size of the bitmap of `size` bytes of words, and pad()
MapSize(size) ==
  ceiling(size, TargetBitsPerWord * TargetBytesPerWord) * TargetBytesPerWord

pad(n) == AlignUp(n, TargetBytesPerWord)

\* the bytes of the four tables: sizeof(unsigned) per entry, two per call
TableBytes(img) ==
  (img.bootClassCount * 4) + (img.appClassCount * 4) + (img.stringCount * 4)
  + (img.callCount * 4 * 2)

\* a serializer that writes no padding
NoPadding(offset) == 0

\* while (offset % TargetBytesPerWord) { fwrite one zero byte; ++ offset; }
PaddingBytes(offset) ==
  (TargetBytesPerWord - (offset % TargetBytesPerWord)) % TargetBytesPerWord

\* the outcomes fwrite may have
WriteOutcomes == IF io.failedWrites < MaxFailedWrites THEN BOOLEAN ELSE {TRUE}

\* one fwrite call of `section`, then on to `next`
Fwrite(at, section, size, data, next) ==
  /\ pc = at
  /\ \E ok \in WriteOutcomes :
       /\ out' = Append(out, [section |-> section, size |-> size, data |-> data,
                              ok |-> ok])
       /\ io' = [io EXCEPT !.failedWrites = IF ok THEN @ ELSE @ + 1]
  /\ pc' = next
  /\ UNCHANGED <<scan, copied, abi, built, vm, typeMaps, heap, heapMap, position, capacity,
                 current, walker, log, code, image, tables>>

WriteHeader == Fwrite("writeHeader", "header", 1, image, "writeBootClassTable")

WriteBootClassTable ==
  Fwrite("writeBootClassTable", "bootClassTable", image.bootClassCount * 4,
         tables.bootClassTable, "writeAppClassTable")

WriteAppClassTable ==
  Fwrite("writeAppClassTable", "appClassTable", image.appClassCount * 4,
         tables.appClassTable, "writeStringTable")

WriteStringTable ==
  Fwrite("writeStringTable", "stringTable", image.stringCount * 4,
         tables.stringTable, "writeCallTable")

WriteCallTable ==
  Fwrite("writeCallTable", "callTable", image.callCount * 4 * 2,
         tables.callTable, "writePadding")

\* the padding loop: one fwrite per zero byte
WritePadding ==
  /\ pc = "writePadding"
  /\ LET n == PaddingBytes(TableBytes(image))
     IN  \E ok \in (IF n = 0 THEN {TRUE} ELSE WriteOutcomes) :
           /\ out' = out \o [i \in 1..n |->
                               [section |-> "padding", size |-> 1, data |-> 0,
                                ok |-> ok \/ i < n]]
           /\ io' = [io EXCEPT !.failedWrites = IF ok THEN @ ELSE @ + 1]
  /\ pc' = "writeHeapMap"
  /\ UNCHANGED <<scan, copied, abi, built, vm, typeMaps, heap, heapMap, position, capacity,
                 current, walker, log, code, image, tables>>

WriteHeapMap ==
  Fwrite("writeHeapMap", "heapMap", pad(MapSize(image.heapSize)), heapMap,
         "writeHeap")

WriteHeap == Fwrite("writeHeap", "heap", pad(image.heapSize), position, "writeCodeMap")

WriteCodeMap ==
  Fwrite("writeCodeMap", "codeMap", pad(MapSize(image.codeSize)), code.map,
         "writeCode")

WriteCode == Fwrite("writeCode", "code", pad(image.codeSize), code.imm, "fclose")

\* main, after run(): the file is closed and the status is the exception's
MainExit ==
  /\ pc = "fclose"
  /\ io' = [io EXCEPT !.status = IF io.exception THEN -1 ELSE 0]
  /\ pc' = "exit"
  /\ UNCHANGED <<scan, copied, abi, built, vm, typeMaps, heap, heapMap, position, capacity,
                 current, walker, log, code, image, out, tables>>

\* the VMs the whole program is run on: with and without an interned string,
\* which the class's static field refers to or nothing does
ProgramVms ==
  {MakeVm(specs, BootLoader, StaticTable, S, BootLoader, strings, 0) :
     specs \in {<<[code |-> ObjectField, static |-> TRUE],
                  [code |-> IntField, static |-> TRUE],
                  [code |-> IntField, static |-> FALSE],
                  [code |-> ObjectField, static |-> FALSE]>>},
     S \in {Null, Instance},
     strings \in {<<>>, <<Instance>>}}

Init ==
  /\ abi \in {a \in Abis : ~a.TargetBigEndian /\ a.BytesPerWord = a.TargetBytesPerWord}
  /\ built = NoBuilt
  /\ vm \in ProgramVms
  /\ typeMaps = <<>>
  /\ heap = <<>>
  /\ heapMap = {}
  /\ position = 0
  /\ capacity = 0
  /\ current = NoCurrent
  /\ code = NoCode
  /\ walker = NoWalker
  /\ log = <<>>
  /\ image = NoImage
  /\ out = <<>>
  /\ pc = "main"
  /\ io = NoIo
  /\ tables = NoTables
  /\ scan = NoScan
  /\ copied = NoCopied

Next ==
  \/ Main \/ Fopen \/ ScanClasses \/ ResolveCalls \/ ResolveAddresses
  \/ InstallVmTypeMaps \/ MakeHeapImage
  \/ Root \/ VisitNew \/ VisitOld \/ Push \/ Pop \/ FinishHeapImage
  \/ UpdateConstants \/ BuildTables \/ SetHeader
  \/ WriteHeader \/ WriteBootClassTable \/ WriteAppClassTable \/ WriteStringTable
  \/ WriteCallTable \/ WritePadding \/ WriteHeapMap \/ WriteHeap \/ WriteCodeMap
  \/ WriteCode \/ MainExit

Spec == Init /\ [][Next]_vars

---------------------------------------------------------------------------
(* Properties of the heap walk *)

\* the visitNew calls that emitted an object, and the visitOld calls
LogNew == {k \in DOMAIN log : log[k].op = "new" /\ log[k].p # Null}

LogOld == {k \in DOMAIN log : log[k].op = "old"}

\* the walk is over: visitRoots has returned
WalkDone == pc = "updateConstants"

\* byte b (from 1) of heap word i
HeapByte(i, b) == heap[(i * TargetBytesPerWord) + b]

\* the edge the walker was following is a class's static-table member
StaticTableEdge(e) ==
  /\ e.parent # Null
  /\ vm.cls[e.parent] = ClassType
  /\ e.edge * BytesPerWord = ClassStaticTable

\* e's object lies behind a fixie header and is followed by zeroed mask words
EmittedFixed(e) ==
  LET maskSize == ceiling(e.size, TargetBytesPerWord)
  IN  /\ e.number = e.before + TargetFixieSizeInWords + 1
      /\ e.after = e.before + TargetFixieSizeInWords + e.size + maskSize
      /\ HeapByte(e.before, TargetFixieAge + 1) = FixieTenureThreshold + 1
      /\ HeapByte(e.before, TargetFixieHasMask + 1) = 1
      /\ SubSeq(heap, (e.before * TargetBytesPerWord) + TargetFixieSize + 1,
                (e.before * TargetBytesPerWord) + TargetFixieSize + 4)
           = TargetV(LEBytes(e.size, 4))
      /\ \A i \in (e.after - maskSize)..(e.after - 1) :
           \A b \in 1..TargetBytesPerWord : HeapByte(i, b) = 0

\* e's object starts at the position visitNew was called at
EmittedPlain(e) ==
  /\ e.number = e.before + 1
  /\ e.after = e.before + e.size

C3_NumbersUniqueAndIncreasing ==
  /\ \A k \in LogNew : log[k].number > 0 /\ log[k].size >= 1
  /\ \A j, k \in LogNew :
       j < k => log[j].number < log[k].number /\ log[j].p # log[k].p
  /\ \A k \in LogOld :
       \E j \in LogNew :
         j < k /\ log[j].p = log[k].p /\ log[j].number = log[k].number

C3_Witness == Cardinality(LogNew) >= 4 /\ Cardinality(LogOld) >= 2

\* C4: at every moment of the walk and after it, a bit set in the heap bitmap
\* at index i means heap word i has been emitted and is not zero.
C4_MarkedWordsNonZero ==
  \A i \in heapMap :
    /\ i < position
    /\ \E b \in 1..TargetBytesPerWord : HeapByte(i, b) \notin {0, Uninit}

C4_Witness == WalkDone /\ Cardinality(heapMap) >= 3

\* the heap words that hold the reference members of an emitted object
RefSlots(e) ==
  LET map == typeMap(typeMaps, e.p)
  IN  {e.number - 1 + (map.fixedFields[i].targetOffset \div TargetBytesPerWord) :
         i \in {j \in 1..map.fixedFieldCount : map.fixedFields[j].type = Type_object}}
      \cup (IF map.targetArrayElementSizeInBytes # 0
               /\ map.arrayElementType = Type_object
            THEN {e.number - 1 + map.targetFixedSizeInWords + j :
                    j \in 0..(ArrayLength(e.p) - 1)}
            ELSE {})

AllRefSlots == UNION {RefSlots(log[k]) : k \in LogNew}

WordIsZero(i) == \A b \in 1..TargetBytesPerWord : HeapByte(i, b) = 0

\* the object-number part of a heap word (its low BootShift bits) is zero
NumberPartIsZero(i) ==
  /\ \A b \in 1..3 : HeapByte(i, b) = 0
  /\ HeapByte(i, 4) # Uninit
  /\ BitAnd(HeapByte(i, 4), Pow2(BootShift - 24) - 1) = 0

\* C5 (as amended): after the walk, every reference member of an emitted
\* object whose heap-bitmap bit is clear holds zero.  Words that hold
\* primitive data, fixie headers or padding are not covered.
C5_ClearReferenceWordsZero ==
  WalkDone => \A i \in AllRefSlots \ heapMap : WordIsZero(i)

C5_Witness ==
  /\ WalkDone
  /\ heapMap # {}
  /\ \E i \in AllRefSlots : i \notin heapMap

\* C5 as stated: after the walk every emitted word whose bit is clear has no
\* object bits set.
C5_AsStated ==
  WalkDone => \A i \in 0..(position - 1) : i \notin heapMap => NumberPartIsZero(i)

\* C8: every patch stores the number visitNew has already returned for the
\* object the edge refers to, and no object is emitted twice; an edge that
\* closes a cycle is patched through visitOld.
C8_NumberedBeforePatched ==
  /\ \A k \in LogNew \cup LogOld :
       log[k].slot >= 0 =>
         /\ log[k].p = Ref(log[k].parent, log[k].edge)
         /\ \E j \in LogNew :
              j <= k /\ log[j].p = log[k].p /\ log[j].number = log[k].number
         /\ HeapByte(log[k].slot, 1) = log[k].number % 256
         /\ HeapByte(log[k].slot, 2) = (log[k].number \div 256) % 256
  /\ \A j, k \in LogNew : j # k => log[j].p # log[k].p

\* an edge back to an object the walker is still inside, two levels up
C8_Witness ==
  /\ log # <<>>
  /\ log[Len(log)].op = "old"
  /\ log[Len(log)].slot >= 0
  /\ log[Len(log)].p # log[Len(log)].parent
  /\ \E i \in 1..Len(walker.stack) : walker.stack[i].object = log[Len(log)].p

\* FixedMark is set in the first word of e's body: in its low bits as
\* visitNew leaves them, or shifted by BootShift once the class reference in
\* that word has been patched
FixedMarkSet(e) ==
  LET shifted == (FixedMark * Pow2(BootShift - 24)) % 256
  IN  \/ BitAnd(HeapByte(e.number - 1, 1), FixedMark) = FixedMark
      \/ BitAnd(HeapByte(e.number - 1, 4), shifted) = shifted

\* C13: the static table of every class that has one is emitted as a fixed
\* object (fixie header before its body, FixedMark in the body's first
\* word), whichever edge of the object graph reaches the table first.
C13_StaticTablesFixed ==
  \A k \in LogNew :
    log[k].p = StaticTable => (EmittedFixed(log[k]) /\ FixedMarkSet(log[k]))

\* the heap words the emitted objects take
EmittedEnd ==
  IF LogNew = {} THEN 0
  ELSE LET last == CHOOSE k \in LogNew : \A j \in LogNew : j <= k
       IN  log[last].after

\* the walk has handed visitNew an object that has no TypeMap
VisitedUnmapped ==
  /\ pc # "walk"
  /\ walker.mode = "visit"
  /\ walker.pending # Null
  /\ walker.pending \notin DOMAIN walker.map
  /\ typeMap(typeMaps, walker.pending) = NoMap

\* C12: when the walk reaches an object that has no TypeMap (under itself for
\* a singleton, under its class otherwise), the writer aborts before it takes
\* a size from, or writes a heap word for, that object.
C12_AbortsOnMissingTypeMap ==
  VisitedUnmapped => (pc = "aborted" /\ position = EmittedEnd)

\* the visitNew calls that took the fixed branch
LogFixed ==
  {k \in LogNew :
     StaticTableEdge(log[k]) \/ vm.cls[log[k].p] = SystemClassLoaderType}

\* the 32-bit size field of the fixie header at heap word `pos`
FixieSizeField(pos) ==
  SubSeq(heap, (pos * TargetBytesPerWord) + TargetFixieSize + 1,
         (pos * TargetBytesPerWord) + TargetFixieSize + 4)

\* the header, the body and the mask words of a fixed object, but for the
\* unit of the size field
FixedExtent(e, size) ==
  LET maskSize == ceiling(size, TargetBytesPerWord)
      body == e.before + TargetFixieSizeInWords
  IN  /\ HeapByte(e.before, TargetFixieAge + 1) = FixieTenureThreshold + 1
      /\ HeapByte(e.before, TargetFixieHasMask + 1) = 1
      /\ e.number = body + 1
      /\ e.after = body + size + maskSize
      /\ \A i \in (body + size)..(e.after - 1) :
           \A b \in 1..TargetBytesPerWord : HeapByte(i, b) = 0

\* C18 (amended): a fixed object of target size `size` (in target words) has
\* a header with age byte FixieTenureThreshold + 1, has-mask byte 1 and a
\* 32-bit size field holding `size`, the size in target words, in the
\* target's byte order; its body starts TargetFixieSizeInWords words after the
\* position, its number is the body's word index + 1, and the position
\* advances by header words + size + ceiling(size, target word size) zeroed
\* mask words.
C18_FixieHeaderCountsWords ==
  \A k \in LogFixed :
    LET size == targetSize(typeMaps, log[k].p)
    IN  /\ FixedExtent(log[k], size)
        /\ FixieSizeField(log[k].before) = TargetV(LEBytes(size, 4))

\* a static table and a system class loader were both emitted fixed
C18_Witness ==
  /\ WalkDone
  /\ \E j, k \in LogFixed :
       /\ log[j].p = StaticTable
       /\ vm.cls[log[k].p] = SystemClassLoaderType
       /\ targetSize(typeMaps, log[j].p) > 2

\* C18 as stated: the size field holds the object's size in target bytes
C18_AsStated ==
  \A k \in LogFixed :
    LET size == targetSize(typeMaps, log[k].p)
    IN  /\ FixedExtent(log[k], size)
        /\ FixieSizeField(log[k].before)
             = TargetV(LEBytes(size * TargetBytesPerWord, 4))

\* the heap words visitNew takes for the object the walker is about to
\* hand it: header, body and mask words for a fixed object, the body otherwise
PendingTotal ==
  LET size == targetSize(typeMaps, walker.pending)
  IN  IF IsFixed(current, walker.pending)
      THEN TargetFixieSizeInWords + size + ceiling(size, TargetBytesPerWord)
      ELSE size

\* the walker has a new object for visitNew, and the object has a TypeMap
PendingNew ==
  /\ walker.mode = "visit"
  /\ walker.pending # Null
  /\ walker.pending \notin DOMAIN walker.map
  /\ typeMap(typeMaps, walker.pending) # NoMap

\* visitNew is about to be called for an object that does not fit: its words
\* would bring the position to the capacity or beyond
Overflowing ==
  /\ pc = "walk"
  /\ PendingNew
  /\ position + PendingTotal >= capacity

\* C19: the position stays strictly below the capacity (and the heap holds
\* exactly `position` words), and a visitNew for an object whose words would
\* bring the position to the capacity or beyond aborts without writing a byte
\* of the heap, a bit of the heap bitmap or the position.
C19_PositionBelowCapacity ==
  /\ [](position < capacity /\ Len(heap) = position * TargetBytesPerWord)
  /\ [][Overflowing =>
          /\ pc' = "aborted"
          /\ heap' = heap
          /\ heapMap' = heapMap
          /\ position' = position]_vars

\* the walk was aborted with objects already emitted, by an object that would
\* have ended exactly at the capacity
C19_Witness ==
  /\ pc = "aborted"
  /\ position > 0
  /\ PendingNew
  /\ position + PendingTotal = capacity

\* the walker is about to call visitNew or visitOld
Visiting == pc = "walk" /\ walker.mode = "visit"

\* the last call the walker made to the visitor
LastOp == IF log = <<>> THEN "none" ELSE log[Len(log)].op

\* target word i of heap bytes h
WordOf(h, i) == SubSeq(h, (i * TargetBytesPerWord) + 1, (i + 1) * TargetBytesPerWord)

\* this step leaves the words and the bitmap bits of the objects emitted so
\* far as they are, but for the words in S
KeepsWords(S) ==
  \A i \in (0..(position - 1)) \ S :
    /\ WordOf(heap', i) = WordOf(heap, i)
    /\ (i \in heapMap') = (i \in heapMap)

\* the words the current object was emitted into
CurrentExtent ==
  (current.number - 1)
    ..(current.number - 2 + targetSize(typeMaps, current.object))

\* C20: a visit that follows root() and a visit of a null reference leave
\* the words and the bitmap bits of the emitted objects unchanged; a word or
\* a bit of an emitted object changes only in a visit that follows push(),
\* with the current object set, and then only in the one slot of the edge,
\* which lies inside the words the current object was emitted into.  No
\* other call of the walker changes the heap or the bitmap.
C20_PatchOnlyUnderPush ==
  [][/\ ~Visiting => (heap' = heap /\ heapMap' = heapMap)
     /\ (Visiting /\ (LastOp = "root" \/ walker.pending = Null))
          => KeepsWords({})
     /\ (Visiting /\ ~KeepsWords({}))
          => /\ LastOp = "push"
             /\ current.object # Null
             /\ VisitSlot(typeMaps, current) \in CurrentExtent
             /\ VisitSlot(typeMaps, current) < position
             /\ KeepsWords({VisitSlot(typeMaps, current)})]_vars

\* a root was visited after objects were emitted, a null member was visited,
\* and slots were patched for new and for old objects
C20_Witness ==
  /\ \E k \in LogNew : k > 1 /\ log[k - 1].op = "root" /\ log[k].before > 0
  /\ \E k \in DOMAIN log : log[k].op = "new" /\ log[k].p = Null
  /\ \E k \in LogNew : log[k].slot >= 0
  /\ \E k \in LogOld : log[k].slot >= 0

\* C22: after the heap walk the header's heapSize is the number of bytes the
\* emitted heap takes: the final position, in target words, times the target
\* word size, whatever the host's word size is.
C22_HeapSizeInTargetBytes ==
  WalkDone =>
    /\ image.heapSize = position * TargetBytesPerWord
    /\ image.heapSize = Len(heap)

---------------------------------------------------------------------------
(* Properties of the TypeMap builders *)

\* the target size of a field's type tag; a pad tag has none
TypeTargetSize(type) ==
  CASE type \in {Type_int64_t, Type_double} -> 8
    [] type \in {Type_int32_t, Type_float} -> 4
    [] type = Type_int16_t -> 2
    [] type = Type_int8_t -> 1
    [] type \in {Type_object, Type_intptr_t} -> TargetBytesPerWord
    [] OTHER -> 1

BuiltMaps == {built.maps[k] : k \in {j \in 1..Len(built.maps) : IsTypeMap(built.maps[j])}}

\* C9 (as amended): every field of a TypeMap built from a field table or from
\* a VM type descriptor lies at a multiple of the target size of its type tag;
\* field i of a TypeMap built from a constant pool lies at i target words,
\* a multiple of that size or of the target word size, whichever is smaller.
C9_FieldsAligned ==
  \A m \in BuiltMaps :
    \A i \in 1..m.fixedFieldCount :
      IF built.path = "pool"
      THEN /\ m.fixedFields[i].targetOffset = (i - 1) * TargetBytesPerWord
           /\ m.fixedFields[i].targetOffset
                % Min(TypeTargetSize(m.fixedFields[i].type), TargetBytesPerWord) = 0
      ELSE m.fixedFields[i].targetOffset % TypeTargetSize(m.fixedFields[i].type) = 0

\* a field table whose long had to be moved up to be aligned
C9_Witness ==
  /\ built.path = "fields"
  /\ \E m \in BuiltMaps :
       \E i, j \in 1..m.fixedFieldCount :
         /\ m.fixedFields[i].type = Type_int8_t
         /\ m.fixedFields[j].type = Type_int64_t
         /\ m.fixedFields[j].targetOffset > m.fixedFields[i].targetOffset + 1

\* C9 as stated: every field of every TypeMap, the pool's included, lies at a
\* multiple of the target size of its type tag.
C9_AsStated ==
  \A m \in BuiltMaps :
    \A i \in 1..m.fixedFieldCount :
      m.fixedFields[i].targetOffset % TypeTargetSize(m.fixedFields[i].type) = 0

\* the instance TypeMap of a class with the fields (int a, long b), built
\* on a 32-bit host for a 64-bit target
BuiltIntLong ==
  /\ built.path = "fields"
  /\ built.input = <<[code |-> IntField, static |-> FALSE],
                     [code |-> LongField, static |-> FALSE]>>
  /\ BytesPerWord = 4
  /\ TargetBytesPerWord = 8

\* C16 (amended): for the fields (int a, long b), 32-bit host and 64-bit
\* target, the instance TypeMap places a at target offset 8, right after the
\* one-word target header, and b at target offset 16, and has
\* target_fixed_words = 3.
C16_IntLongLayout ==
  BuiltIntLong =>
    /\ IsTypeMap(built.maps[1])
    /\ built.maps[1].kind = NormalKind
    /\ built.maps[1].fixedFieldCount = 3
    /\ built.maps[1].fixedFields[2].type = Type_int32_t
    /\ built.maps[1].fixedFields[2].targetOffset = 8
    /\ built.maps[1].fixedFields[3].type = Type_int64_t
    /\ built.maps[1].fixedFields[3].targetOffset = 16
    /\ built.maps[1].targetFixedSizeInWords = 3

C16_Witness == BuiltIntLong /\ pc = "built" /\ built.maps[2] = NoMap

\* C16 as stated: a at target offset 4, b at target offset 8,
\* target_fixed_words = 3
C16_AsStated ==
  BuiltIntLong =>
    /\ built.maps[1].fixedFields[2].targetOffset = 4
    /\ built.maps[1].fixedFields[3].targetOffset = 8
    /\ built.maps[1].targetFixedSizeInWords = 3

\* C17: a class that declares no fields and no methods still gets exactly
\* one TypeMap, the Normal-kind map of its instance layout (the header word
\* alone), so that an instance of the class can be emitted.
C17_EmptyClassHasTypeMap ==
  (built.path = "fields" /\ built.input = <<>>) =>
    /\ IsTypeMap(built.maps[1])
    /\ built.maps[1].kind = NormalKind
    /\ built.maps[1].fixedFieldCount = 1
    /\ built.maps[2] = NoMap

\* the Pool-kind TypeMap of a class file whose tags the switch knows
BuiltPool ==
  /\ built.path = "pool"
  /\ built.input # <<>>
  /\ \A i \in 1..Len(built.input) : built.input[i] \in PoolTags

\* an eight-byte constant takes two slots of the constant pool
WideTags == {CONSTANT_Long, CONSTANT_Double}

\* the slots the first n entries of the pool take; for the whole pool this is
\* constant_pool_count - 1
PoolSlots(pool, n) ==
  n + Cardinality({i \in 1..n : pool[i] \in WideTags})

\* the tag table of the claim
TableTag(tag) ==
  IF tag \in {CONSTANT_Integer, CONSTANT_Float} THEN Type_int32_t
  ELSE IF tag = CONSTANT_Long THEN Type_int64_t
  ELSE IF tag = CONSTANT_Double THEN Type_double
  ELSE Type_object

TablePad(tag) == IF tag = CONSTANT_Long THEN Type_int64_t_pad ELSE Type_double_pad

\* the type tags of a TypeMap's fields, in order
FieldTags(m) == [i \in 1..m.fixedFieldCount |-> m.fixedFields[i].type]

\* C21: the Pool-kind TypeMap of a non-empty constant pool has
\* (constant_pool_count - 1) + 2 fields; the first two are (object, iword);
\* the field of every pool entry carries the tag of the table, and a Long or
\* Double is followed by its pad; the pool [Class, Long, Utf8] gives the tags
\* [object, iword, object, i64, i64-pad, object]; a pool of one slot
\* (constant_pool_count - 1 = 1) gives fixedFieldCount = 3.
C21_PoolTypeMapTags ==
  BuiltPool =>
    LET m == built.maps[1]
        pool == built.input
        count == PoolSlots(pool, Len(pool))
    IN  /\ IsTypeMap(m)
        /\ m.kind = PoolKind
        /\ m.fixedFieldCount = count + 2
        /\ Len(m.fixedFields) = count + 2
        /\ m.fixedFields[1].type = Type_object
        /\ m.fixedFields[2].type = Type_intptr_t
        /\ \A i \in 1..Len(pool) :
             LET at == 2 + PoolSlots(pool, i - 1) + 1
             IN  /\ m.fixedFields[at].type = TableTag(pool[i])
                 /\ pool[i] \in WideTags
                      => m.fixedFields[at + 1].type = TablePad(pool[i])
        /\ pool = <<CONSTANT_Class, CONSTANT_Long, CONSTANT_Utf8>>
             => FieldTags(m) = <<Type_object, Type_intptr_t, Type_object,
                                 Type_int64_t, Type_int64_t_pad, Type_object>>
        /\ count = 1 => m.fixedFieldCount = 3

\* the pool [Class, Long, Utf8] was given its TypeMap
C21_Witness ==
  /\ pc = "built"
  /\ BuiltPool
  /\ built.input = <<CONSTANT_Class, CONSTANT_Long, CONSTANT_Utf8>>
  /\ built.maps[1].fixedFieldCount = 6

---------------------------------------------------------------------------
(* Properties of the field transcoder *)

\* an i32 field holding 0x01020304 was copied for a big-endian target
CopiedInt32 ==
  /\ pc = "copied"
  /\ TargetBigEndian
  /\ copied.type = Type_int32_t
  /\ SubSeq(copied.src, 1, 4) = <<4, 3, 2, 1>>

\* C15 (amended): little-endian host, big-endian target: an i32 field whose
\* value is 0x01020304 is emitted as the bytes 01 02 03 04 at the field's
\* target offset, and no other byte of the destination is written.
C15_Int32MostSignificantFirst ==
  CopiedInt32 =>
    copied.dst = WriteAt(UninitBytes(BlockSize), copied.at, <<1, 2, 3, 4>>)

C15_Witness == CopiedInt32 /\ copied.at = 4

\* C15 as stated: the bytes at the field's target offset are 04 03 02 01
C15_AsStated ==
  CopiedInt32 => SubSeq(copied.dst, copied.at + 1, copied.at + 4) = <<4, 3, 2, 1>>

---------------------------------------------------------------------------
(* Properties of the class scan *)

\* the entries of the classpath whose name ends in ".class"
IsClassEntry(name) ==
  Len(name) >= 6 /\ SubSeq(name, Len(name) - 5, Len(name)) = ClassSuffix

ClassEntries == {k \in DOMAIN scan.classpath : IsClassEntry(scan.classpath[k])}

\* the methods of the class whose name and spec equal the filters given
EqualMethods ==
  {i \in DOMAIN MethodTable :
     /\ (scan.methodName # <<>> => MethodTable[i].name = scan.methodName[1])
     /\ (scan.methodSpec # <<>> => MethodTable[i].spec = scan.methodSpec[1])}

\* C11: with a class-name filter only the .class entries whose class name
\* equals the filter are resolved, given TypeMaps and compiled, and only the
\* methods whose name and spec equal the method filters are compiled; with
\* no filter every .class entry is processed and every method that has code
\* is compiled.
C11_FiltersSelectByEquality ==
  /\ \A k \in DOMAIN scan.done :
       /\ (scan.className # <<>> => scan.done[k].class = scan.className[1])
       /\ scan.done[k].compiled \subseteq EqualMethods
  /\ (pc = "calls" /\ scan.className = <<>>) =>
       /\ Len(scan.done) = Cardinality(ClassEntries)
       /\ \A k \in DOMAIN scan.done :
            {i \in DOMAIN MethodTable : MethodTable[i].code}
              \subseteq scan.done[k].compiled

---------------------------------------------------------------------------
(* Properties of the program *)

SectionNames == [i \in 1..Len(out) |-> out[i].section]

\* the sections of a complete file for header img
ExpectedSections(img) ==
  <<"header", "bootClassTable", "appClassTable", "stringTable", "callTable">>
  \o [i \in 1..((TargetBytesPerWord - (TableBytes(img) % TargetBytesPerWord))
                % TargetBytesPerWord) |-> "padding"]
  \o <<"heapMap", "heap", "codeMap", "code">>

IsPrefix(a, b) == Len(a) <= Len(b) /\ a = SubSeq(b, 1, Len(a))

\* C1: the sections are written once each in the order header, boot-class
\* table, app-class table, string table, call table, zero padding to a target
\* word, heap bitmap, heap, code bitmap, code; and the header holds its final
\* field values when it is written.
C1_SectionsOnceInOrder ==
  /\ IsPrefix(SectionNames, ExpectedSections(image))
  /\ (pc = "exit" /\ io.status = 0) => SectionNames = ExpectedSections(image)
  /\ \A k \in 1..Len(out) : out[k].section = "padding" => out[k].data = 0
  /\ out # <<>> =>
       /\ out[1].data = image
       /\ image.magic = Magic
       /\ image.codeBase = "code"
       /\ image.heapSize = position * BytesPerWord
       /\ image.codeSize = code.size
       /\ image.bootClassCount = Len(vm.bootClasses)
       /\ image.appClassCount = Len(vm.appClasses)
       /\ image.stringCount = Len(vm.strings)
       /\ image.callCount = Len(code.calls)

C1_Witness ==
  /\ pc = "exit"
  /\ io.status = 0
  /\ io.failedWrites = 0
  /\ Len(out) > 9

\* every pass over the deferred lists has run
PassesDone ==
  pc \in {"tables", "header", "writeHeader", "writeBootClassTable",
          "writeAppClassTable", "writeStringTable", "writeCallTable",
          "writePadding", "writeHeapMap", "writeHeap", "writeCodeMap", "writeCode"}

\* the heap walk has not finished
WalkPending ==
  pc \in {"main", "fopen", "makeCodeImage", "calls", "addresses", "typeMaps",
          "makeHeapImage", "walk"}

CallLocations == {code.calls[i].location : i \in 1..Len(code.calls)}

AddressLocations == {code.addresses[i].location : i \in 1..Len(code.addresses)}

ConstantLocations ==
  UNION {{code.constants[i].listeners[j].location :
            j \in 1..Len(code.constants[i].listeners)} :
         i \in 1..Len(code.constants)}

Rewritten(kind) == {l \in DOMAIN code.imm : code.imm[l].kind = kind}

\* C6 (as amended): after the passes every deferred call, address and heap
\* constant has its immediate rewritten; the code-bitmap bits that are set are
\* exactly those of the address and heap-constant immediates, and the
\* immediate of a method call has no bit.
C6_BitsForAddressesAndConstants ==
  PassesDone =>
    /\ Rewritten("call") = CallLocations
    /\ Rewritten("address") = AddressLocations
    /\ Rewritten("constant") = ConstantLocations
    /\ code.map = AddressLocations \cup ConstantLocations
    /\ CallLocations \cap code.map = {}

C6_Witness ==
  /\ PassesDone
  /\ CallLocations # {}
  /\ AddressLocations # {}
  /\ ConstantLocations # {}

\* C6 as stated: after the passes every rewritten immediate, a method call's
\* included, has its bit set, and no other bit is set.
C6_AsStated ==
  PassesDone => code.map = DOMAIN code.imm

C14_InternedStringsNumbered ==
  pc = "header" =>
    /\ Len(tables.stringTable) = Len(vm.strings)
    /\ \A i \in 1..Len(vm.strings) :
         /\ Find(walker, vm.strings[i]) # 0
         /\ tables.stringTable[i] # 0

\* C10: the process exits with status 0 only if the argument count was
\* accepted, the output file was opened, no exception is pending and every
\* section was written without a failed write.
C10_ExitZeroOnlyIfWritten ==
  (pc = "exit" /\ io.status = 0) =>
    /\ io.ac \in 3..6
    /\ ~io.exception
    /\ SectionNames = ExpectedSections(image)
    /\ \A k \in 1..Len(out) : out[k].ok

===========================================================================
